------------------------------ MODULE PlanDesk ------------------------------
(***************************************************************************)
(* Warranty and service plans: the three catalogues that offer them, the   *)
(* line in the cart, and the Active VAS Plans record a bill makes of it,   *)
(* next to the device register (CH Customer Device) its hooks keep.        *)
(*                                                                         *)
(* Dates are days, a plan's months a number of days.  A basket holds       *)
(* devices and at most one plan.                                           *)
(*                                                                         *)
(* A definition directly before another one that it resembles is a mutant. *)
(***************************************************************************)
EXTENDS Integers, FiniteSets, FiniteSetsExt

CONSTANTS
    Handsets,    \* serials of the store's stock
    HandsetItem, \* serial -> [item, price, category, group, brand, base]
    OwnImeis,    \* IMEIs customers bring along that were never stocked
    Plans,       \* CH Warranty Plan, see PlansAssumption
    GenericItem, \* the item that stands for a customer's own device
    MaxCovers,   \* bound on the plans in force
    LastPlanDay

PlanTypes == {"Own", "Extended", "Protection"}
NoDevice == "NoSerial"
NoItem == "NoItem"

\* A warranty is the item's (get_item_default_warranty).
ASSUME PlansAssumption ==
    /\ IsFiniteSet(Handsets) /\ NoDevice \notin Handsets /\ LastPlanDay \in Nat \ {0}
    /\ \A h \in Handsets : /\ HandsetItem[h].price \in Nat /\ HandsetItem[h].base \in Nat
                           /\ HandsetItem[h].item # NoItem
    /\ \A g, h \in Handsets :
          HandsetItem[g].item = HandsetItem[h].item => HandsetItem[g].base = HandsetItem[h].base
    /\ \A p \in Plans :
          /\ p.type \in PlanTypes /\ p.place \in {"InStore", "External", "Both"}
          /\ {p.price, p.percent, p.outside, p.least, p.most, p.window, p.days} \subseteq Nat
          /\ {p.external, p.stacks, p.sellable} \subseteq BOOLEAN
          /\ p.from \in Nat /\ p.upto \in Nat

VARIABLES
    shelf,    \* CH Serial Lifecycle: serial -> "InStock" or "Sold"
    register, \* CH Customer Device: serial -> [status, base], base is its last day
    dealt,    \* serial -> days of the submitted bills and credit notes with it
    basket,   \* the till's cart: [devices, line]
    covers,   \* Active VAS Plans; kind is that of its line
    planDay

planVars == <<shelf, register, dealt, basket, covers, planDay>>

\* A line is for a device of the cart, of an earlier bill, or the customer's own.
NoLine == [plan |-> "none"]
EmptyBasket == [devices |-> {}, line |-> NoLine]

PlanInit ==
    /\ shelf = [h \in Handsets |-> "InStock"]
    /\ register = [h \in Handsets |-> [status |-> "none", base |-> 0]]
    /\ dealt = [h \in Handsets |-> [sold |-> {}, back |-> {}]]
    /\ basket = EmptyBasket /\ covers = {} /\ planDay = 1

-----------------------------------------------------------------------------
(* The catalogues                                                          *)

ItemsOf(devices) == {HandsetItem[h] : h \in devices}
TopPrice(devices) == Max({0} \cup {i.price : i \in ItemsOf(devices)})
InForce(p) == p.from <= planDay /\ (p.upto = 0 \/ planDay <= p.upto)
\* A list a plan declares must name what the device has, if it has one.
Listed(declared, has) == declared = {} \/ has = {} \/ declared \cap has # {}

\* _resolve_price, get_warranty_plans, _get_warranty_plans
Priced(p, devicePrice) ==
    IF p.percent > 0 /\ devicePrice > 0 THEN (devicePrice * p.percent) \div 100 ELSE p.price

\* get_vas_plans_with_rules, of the devices in the cart
VasPrice(p, devices) ==
    IF p.place = "External" \/ (devices = {} /\ p.external) THEN p.outside
    ELSE Priced(p, TopPrice(devices))

VasBlocked(p, devices) ==
    LET top == TopPrice(devices)
        categories == {i.category : i \in ItemsOf(devices)}
    IN  \/ p.type = "Protection" /\ devices = {} /\ ~p.external
        \/ p.place = "External" /\ ~p.external
        \/ top > 0 /\ (top < p.least \/ (p.most > 0 /\ top > p.most))
        \/ p.categories # {} /\ IF categories = {} THEN ~p.external
                                ELSE p.categories \cap categories = {}
        \/ ~Listed(p.groups, {i.group : i \in ItemsOf(devices)})

VasOffered(p, devices) == p.sellable /\ InForce(p) /\ ~VasBlocked(p, devices)

FitsItem(p, i) ==
    /\ InForce(p) /\ p.brand \in {"any", i.brand}
    /\ Listed(p.groups, {i.group}) /\ Listed(p.categories, {i.category})

\* pos_api.get_warranty_plans: the warranties for an item
WarrantyOffered(p, i) == p.type \in {"Own", "Extended"} /\ FitsItem(p, i)
AttachOfferedExpired(p, i) == p.brand \in {"any", i.brand} /\ Listed(p.groups, {i.group})
\* attach_api._get_warranty_plans: the attach panel
AttachOffered(p, i) == FitsItem(p, i)

-----------------------------------------------------------------------------
(* canonicalize_cart_items: what a plan costs and whether it may be billed *)

OfItem(item, devices) == {h \in devices : HandsetItem[h].item = item}

\* The covered device: in the cart by serial or model, else on the earlier
\* bill, else the costliest of the cart.
CoveredPrice(item, unit, kind, devices) ==
    IF unit \in devices THEN HandsetItem[unit].price
    ELSE IF OfItem(item, devices) # {} THEN TopPrice(OfItem(item, devices))
    ELSE IF kind = "earlier" THEN HandsetItem[unit].price
    ELSE TopPrice(devices)

PlanPriceOfCostliest(p, item, unit, kind, devices) ==
    IF kind = "own" THEN p.outside ELSE Priced(p, TopPrice(devices))
PlanPrice(p, item, unit, kind, devices) ==
    IF kind = "own" THEN p.outside
    ELSE IF p.percent > 0 THEN (CoveredPrice(item, unit, kind, devices) * p.percent) \div 100
    ELSE p.price

Canonical(p, line, devices) ==
    LET covered == CoveredPrice(line.item, line.serial, line.kind, devices)
    IN  /\ p.sellable /\ InForce(p)
        /\ p.place # (IF line.kind = "own" THEN "InStore" ELSE "External")
        /\ line.price > 0
        /\ line.price = PlanPrice(p, line.item, line.serial, line.kind, devices)
        /\ line.kind # "own" => covered >= p.least /\ (p.most > 0 => covered <= p.most)

-----------------------------------------------------------------------------
(* The cart                                                                *)

PickDevice(h) ==
    /\ shelf[h] = "InStock" /\ h \notin basket.devices
    /\ basket' = [basket EXCEPT !.devices = @ \cup {h}]
    /\ UNCHANGED <<shelf, register, dealt, covers, planDay>>

\* The till takes a plan out with the device it was for: by its serial, or,
\* without one, when no device of the model is left.
DropDevice(h) ==
    LET left  == basket.devices \ {h}
        bound == /\ basket.line # NoLine
                 /\ \/ basket.line.serial = h
                    \/ basket.line.serial = NoDevice /\ basket.line.item = HandsetItem[h].item
                       /\ \A o \in left : HandsetItem[o].item # HandsetItem[h].item
    IN  /\ h \in basket.devices
        /\ basket' = [devices |-> left, line |-> IF bound THEN NoLine ELSE basket.line]
        /\ UNCHANGED <<shelf, register, dealt, covers, planDay>>

PutLine(p, item, unit, kind) ==
    /\ basket.line = NoLine /\ Cardinality(covers) < MaxCovers
    /\ basket' = [basket EXCEPT !.line =
          [plan |-> p.name, item |-> item, serial |-> unit, kind |-> kind,
           price |-> PlanPrice(p, item, unit, kind, basket.devices)]]
    /\ UNCHANGED <<shelf, register, dealt, covers, planDay>>

\* For a device of the cart; a suggestion may not carry its serial.
PlanForCart(p, h, unit) ==
    /\ h \in basket.devices /\ VasOffered(p, basket.devices) /\ unit \in {h, NoDevice}
    /\ PutLine(p, HandsetItem[h].item, unit, "cart")

\* find_previous_device_invoice: the customer's last bill with this serial
PreviousBill(h) == dealt[h].sold # {}
PlanForEarlier(p, h) ==
    /\ PreviousBill(h) /\ h \notin basket.devices /\ VasOffered(p, basket.devices)
    /\ PutLine(p, HandsetItem[h].item, h, "earlier")

\* For an IMEI the customer brings along; it may be one of ours.
PlanForOwn(p, imei) ==
    /\ p.external /\ VasOffered(p, basket.devices)
    /\ PutLine(p, IF imei \in Handsets THEN HandsetItem[imei].item ELSE NoItem, imei, "own")

-----------------------------------------------------------------------------
(* The bill                                                                *)

PlanNamed(name) == CHOOSE p \in Plans : p.name = name

\* _infer_device_serial: the only device of the bill it can be
InferredSerial(line, devices) ==
    LET fits == {h \in devices : line.item \in {NoItem, HandsetItem[h].item}}
    IN  IF line.serial # NoDevice \/ line.kind = "own" THEN line.serial
        ELSE IF Cardinality(fits) = 1 THEN CHOOSE h \in fits : TRUE ELSE NoDevice

\* _resolve_item_from_imei: a serial we know
InferredItem(line, devices, unit) ==
    IF line.item # NoItem THEN line.item
    ELSE IF line.kind # "own" /\ Cardinality(devices) = 1 THEN (CHOOSE i \in ItemsOf(devices) : TRUE).item
    ELSE IF unit \in Handsets THEN HandsetItem[unit].item
    ELSE NoItem

\* _prepare_active_plan_link: what is left is the customer's own device
MayBeExternal(p, line, unit) ==
    /\ p.external /\ unit # NoDevice
    /\ p.window > 0 => line.kind = "earlier"

\* _create_active_plan: the purchase window, from the last document with the
\* serial, whoever's it was
WithinWindow(p, unit, external, sales) ==
    p.window > 0 /\ p.type # "Own" /\ unit # NoDevice =>
        IF unit \notin Handsets THEN ~external
        ELSE LET days == sales[unit].sold \cup sales[unit].back
             IN  days # {} => planDay - Max(days) <= p.window

\* The warranty an item has from today (get_base_warranty_expiry).
ItemExpiry(item) ==
    LET days == {HandsetItem[h].base : h \in OfItem(item, Handsets)}
    IN  IF days \subseteq {0} THEN 0 ELSE planDay + Max(days)

CoverageFromToday(p, unit, item, devices) ==
    LET base == ItemExpiry(item)
    IN  IF p.stacks /\ base > 0 THEN base + 1 ELSE planDay
\* starts_after_base_warranty: the day after the registered warranty ends
CoverageStart(p, unit, item, devices) ==
    LET known == IF unit \in Handsets THEN devices[unit].base ELSE 0
        base  == IF known > 0 THEN known ELSE ItemExpiry(item)
    IN  IF p.stacks /\ base >= planDay THEN base + 1 ELSE planDay

\* _find_device_price, of this bill or the earlier one: by serial, by model,
\* else the first device there is.
DevicePrices(line, item, unit, devices) ==
    LET found == IF unit \in devices THEN {unit}
                 ELSE IF OfItem(item, devices) # {} THEN OfItem(item, devices)
                 ELSE IF devices # {} THEN devices
                 ELSE IF line.kind = "earlier" THEN {unit} ELSE {}
    IN  IF found = {} THEN {0} ELSE {HandsetItem[h].price : h \in found}

\* create_customer_device_records: the register after the bill's submit
Registered(devices) ==
    [h \in Handsets |->
        IF h \notin devices THEN register[h]
        ELSE [status |-> "Owned",
              base |-> IF HandsetItem[h].base > 0 THEN planDay + HandsetItem[h].base
                       ELSE register[h].base]]

\* The plans a line may become; none when the bill fails over it.
PlanOf(line, devices, books, sales) ==
    LET p        == PlanNamed(line.plan)
        unit     == InferredSerial(line, devices)
        item     == InferredItem(line, devices, unit)
        external == item = NoItem
        start    == CoverageStart(p, unit, item, books)
    IN  {[plan |-> p.name, item |-> IF external THEN GenericItem ELSE item, serial |-> unit,
          external |-> external, kind |-> line.kind, price |-> line.price, value |-> value,
          bought |-> planDay, start |-> start, end |-> start + p.days] :
            value \in {v \in DevicePrices(line, item, unit, devices) :
                          /\ Canonical(p, line, devices)
                          /\ external => MayBeExternal(p, line, unit)
                          /\ WithinWindow(p, unit, external, sales)}}

\* create_pos_invoice with its plans: all of it, or nothing.
BillBasket ==
    LET books == Registered(basket.devices)
        sales == [h \in Handsets |-> IF h \in basket.devices
                                     THEN [dealt[h] EXCEPT !.sold = @ \cup {planDay}] ELSE dealt[h]]
    IN  /\ basket # EmptyBasket
        /\ \A h \in basket.devices : shelf[h] = "InStock"
        /\ IF basket.line = NoLine THEN covers' = covers
           ELSE \E c \in PlanOf(basket.line, basket.devices, books, sales) : covers' = covers \cup {c}
        /\ shelf' = [h \in Handsets |-> IF h \in basket.devices THEN "Sold" ELSE shelf[h]]
        /\ register' = books /\ dealt' = sales
        /\ basket' = EmptyBasket
        /\ UNCHANGED planDay

EmptyTheBasket ==
    /\ basket # EmptyBasket /\ basket' = EmptyBasket
    /\ UNCHANGED <<shelf, register, dealt, covers, planDay>>

\* A return with its plans (ReturnsDesk): the device is the store's again.
DeviceReturns(h) ==
    /\ shelf[h] = "Sold"
    /\ shelf' = [shelf EXCEPT ![h] = "InStock"]
    /\ register' = [register EXCEPT ![h].status = "Returned"]
    /\ dealt' = [dealt EXCEPT ![h].back = @ \cup {planDay}]
    /\ covers' = {c \in covers : c.serial # h}
    /\ UNCHANGED <<basket, planDay>>

PlanNextDay ==
    /\ planDay < LastPlanDay /\ planDay' = planDay + 1
    /\ UNCHANGED <<shelf, register, dealt, basket, covers>>

PlanNext ==
    \/ \E h \in Handsets :
          \/ PickDevice(h) \/ DropDevice(h) \/ DeviceReturns(h)
          \/ \E p \in Plans : PlanForEarlier(p, h) \/ \E s \in {h, NoDevice} : PlanForCart(p, h, s)
    \/ \E p \in Plans, imei \in OwnImeis \cup Handsets : PlanForOwn(p, imei)
    \/ BillBasket \/ EmptyTheBasket \/ PlanNextDay

PlanSpec == PlanInit /\ [][PlanNext]_planVars

-----------------------------------------------------------------------------
(* Properties                                                              *)

\* Devices, basket and plans.
PlanTypeOK ==
    /\ shelf \in [Handsets -> {"InStock", "Sold"}]
    /\ register \in [Handsets -> [status : {"none", "Owned", "Returned"}, base : Nat]]
    /\ dealt \in [Handsets -> [sold : SUBSET (1..planDay), back : SUBSET (1..planDay)]]
    /\ basket = [devices |-> basket.devices, line |-> basket.line]
    /\ basket.devices \subseteq Handsets /\ planDay \in 1..LastPlanDay
    /\ \A c \in covers : /\ c.serial \in Handsets \cup OwnImeis \cup {NoDevice}
                         /\ c.bought \in 1..planDay /\ c.start \in Nat

\* A plan for one of our devices is for one that was sold, at the latest on
\* the bill of the plan, whatever was put in and taken out of the cart; one
\* for a customer's own device names its IMEI (_prepare_active_plan_link).
PlansNameADevice ==
    \A c \in covers :
        IF c.external THEN c.serial \in OwnImeis
        ELSE c.serial \in Handsets /\ c.kind # "own" => \E day \in dealt[c.serial].sold : day <= c.bought

\* A device with a plan that follows its warranty is not without cover for a
\* day in between, however much later the plan was bought (starts_after_base_warranty).
NoGapInCover ==
    \A c \in covers : c.serial \in Handsets /\ shelf[c.serial] = "Sold" =>
        c.start <= Max({c.bought, register[c.serial].base + 1})

\* A plan that is to be bought within days of its device was: of its sale or
\* return (_create_active_plan, purchase_window_hours).
WindowIsKept ==
    \A c \in covers :
        LET p == PlanNamed(c.plan)
        IN  p.window > 0 /\ p.type # "Own" /\ c.serial \in Handsets /\ c.kind # "own" =>
                \E day \in dealt[c.serial].sold \cup dealt[c.serial].back :
                    day <= c.bought /\ c.bought - day <= p.window

\* A plan for a device of the bill costs what that device's price makes it,
\* whatever else is in the cart or came and went (canonicalize_cart_items).
PricedOnItsDevice ==
    \A c \in covers : c.serial \in Handsets /\ c.kind = "cart" =>
        c.price = Priced(PlanNamed(c.plan), HandsetItem[c.serial].price)

\* The attach panel and the warranty look-up offer the same warranties for an
\* item on every day (attach_api._get_warranty_plans: the two "agree").
CataloguesAgree ==
    \A p \in Plans, h \in Handsets :
        p.type # "Protection" =>
            (AttachOffered(p, HandsetItem[h]) <=> WarrantyOffered(p, HandsetItem[h]))

\* What a plan covers, for how long, and where it is offered.
PlansCover ==
    /\ PlansNameADevice
    /\ NoGapInCover
    /\ WindowIsKept
    /\ PricedOnItsDevice
    /\ CataloguesAgree

-----------------------------------------------------------------------------
(* What the code's comments say and a run refutes                          *)

\* "every service contract activation MUST capture the covered asset
\* identifier" (_prepare_active_plan_link, pos_api.py:5044)
PlansNameASerial == \A c \in covers : c.serial # NoDevice

\* "Find the most recent sale of this serial to this customer"
\* (_create_active_plan, pos_api.py:5374)
WindowIsFromTheSale ==
    \A c \in covers :
        LET p == PlanNamed(c.plan)
        IN  p.window > 0 /\ c.serial \in Handsets =>
                \E day \in dealt[c.serial].sold : day <= c.bought /\ c.bought - day <= p.window

\* "the customer is buying VAS for THEIR OWN device, not the new phone"
\* (create_pos_invoice, pos_api.py:5088)
OwnDeviceIsNotTheNewOne == \A c \in covers : c.external => c.value = 0

\* "A plan covers ONE device" (free_sale_api.py:280): an earlier device's plan
\* is priced, and insured, at that device's price
EarlierIsPricedOnItsDevice ==
    \A c \in covers : c.kind = "earlier" =>
        /\ c.value = HandsetItem[c.serial].price
        /\ c.price = Priced(PlanNamed(c.plan), HandsetItem[c.serial].price)

\* "Select a device from the bill/inventory": no plan for a device that was
\* never sold (_prepare_active_plan_link, pos_api.py:5016)
PlanForASoldDevice ==
    \A c \in covers : c.serial \in Handsets => dealt[c.serial].sold # {}

=============================================================================
