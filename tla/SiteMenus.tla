------------------------------- MODULE SiteMenus --------------------------------
(***************************************************************************)
(* The menus of one tenant and their items.  Every statement stands alone:   *)
(* a new item is put behind the last one as its request has read it, whether *)
(* its menu is there or not; deleting a menu deletes its items first; a      *)
(* reordering writes item after item.                                        *)
(***************************************************************************)
EXTENDS Integers, Sequences, FiniteSets, FiniteSetsExt

CONSTANTS
    Menus,         \* a menu is its slug, which stays taken when it is deleted
    Places,        \* positions that requests ask for
    Arrangers,     \* requests at work at the same time
    MaxItems,      \* bound: items created
    MaxArranged,   \* bound: requests begun
    MaxMishaps     \* bound: requests that fail or die on their way

ASSUME MenuBounds == Places \subseteq Nat /\ {MaxItems, MaxArranged, MaxMishaps} \subseteq Nat

VARIABLES
    menu,        \* menu[m]: the state of its row
    item,        \* the rows of items, in the order of their creation
    chore,       \* chore[e]: what request e does
    arranged, mishaps,
    placed,      \* history: items that were given a position by a request
    before,      \* history: before[j]: items of its menu when j's place was chosen
    tardy        \* history: items inserted after the items of their menu were deleted

menuHistory == <<placed, before, tardy>>
menuVars    == <<menu, item, chore, arranged, mishaps, menuHistory>>

Items   == 1 .. Len(item)
NoChore == [step |-> "idle"]
AddingItem      == [step : {"max", "insert"}, menu : Menus, order : Nat, seen : SUBSET (1 .. MaxItems)]
DeletingMenu    == [step : {"items", "menu"}, menu : Menus]
ReorderingItems  == [step : {"write"}, orders : UNION {[is -> Places] : is \in SUBSET (1 .. MaxItems)}]
UpdatingItem    == [step : {"update"}, target : 1 .. MaxItems, order : Places]

MenusTypeOK ==
    /\ menu \in [Menus -> {"never", "live", "deleted"}]
    /\ Len(item) <= MaxItems
    /\ \A i \in Items : item[i] \in [menu : Menus, order : Nat, live : BOOLEAN]
    /\ \A e \in Arrangers : chore[e] = NoChore
                            \/ chore[e] \in AddingItem \cup DeletingMenu \cup ReorderingItems \cup UpdatingItem
    /\ arranged \in 0 .. MaxArranged /\ mishaps \in 0 .. MaxMishaps
    /\ placed \subseteq Items /\ tardy \subseteq Items
    /\ Len(before) = Len(item) /\ \A i \in Items : before[i] \subseteq Items

MenusInit ==
    /\ menu = [m \in Menus |-> "never"] /\ item = <<>>
    /\ chore = [e \in Arrangers |-> NoChore]
    /\ arranged = 0 /\ mishaps = 0
    /\ placed = {} /\ before = <<>> /\ tardy = {}

---------------------------------------------------------------------------------
LiveItems(m) == {i \in Items : item[i].live /\ item[i].menu = m}

(* For the mutant: the new item is counted in instead.                       *)
CountPlace(m) == Cardinality(LiveItems(m)) + 1

NextPlace(m) == Max({0} \cup {item[i].order : i \in LiveItems(m)}) + 1

(* Rows are updated where they are live; others are passed over unseen.      *)
UpdateItemFields(i, order) ==
    IF i \in Items /\ item[i].live
    THEN item' = [item EXCEPT ![i].order = order] /\ placed' = placed \cup {i}
    ELSE UNCHANGED <<item, placed>>

(* Items of m are, or are being, deleted with their menu.                    *)
PastItems(m) == menu[m] = "deleted" \/ \E e \in Arrangers : chore[e].step = "menu" /\ chore[e].menu = m

StartChore(e, c) ==
    /\ chore[e] = NoChore /\ arranged < MaxArranged
    /\ arranged' = arranged + 1
    /\ chore' = [chore EXCEPT ![e] = c]

EndChore(e) == chore' = [chore EXCEPT ![e] = NoChore]

---------------------------------------------------------------------------------
CreateMenu(m) ==
    /\ menu[m] = "never"
    /\ menu' = [menu EXCEPT ![m] = "live"]
    /\ UNCHANGED <<item, chore, arranged, mishaps, menuHistory>>

(* Nobody looks whether the menu of a new item is there.                     *)
AddItem(e, m) ==
    /\ menu[m] # "never"
    /\ StartChore(e, [step |-> "max", menu |-> m, order |-> 0, seen |-> {}])
    /\ UNCHANGED <<menu, item, mishaps, menuHistory>>

MaxItemSortOrder(e) ==
    /\ chore[e].step = "max"
    /\ chore' = [chore EXCEPT ![e] = [step |-> "insert", menu |-> @.menu, order |-> NextPlace(@.menu),
                                      seen |-> LiveItems(@.menu)]]
    /\ UNCHANGED <<menu, item, arranged, mishaps, menuHistory>>

CreateItem(e) ==
    /\ chore[e].step = "insert" /\ Len(item) < MaxItems
    /\ LET m == chore[e].menu
       IN  /\ item' = Append(item, [menu |-> m, order |-> chore[e].order, live |-> TRUE])
           /\ before' = Append(before, chore[e].seen)
           /\ tardy' = IF PastItems(m) THEN tardy \cup {Len(item')} ELSE tardy
    /\ EndChore(e)
    /\ UNCHANGED <<menu, arranged, mishaps, placed>>

(* The request finds the item, and updates it if it is still there.          *)
FindItem(e, i, order) ==
    /\ i \in Items /\ item[i].live
    /\ StartChore(e, [step |-> "update", target |-> i, order |-> order])
    /\ UNCHANGED <<menu, item, mishaps, menuHistory>>

UpdateItem(e) ==
    /\ chore[e].step = "update"
    /\ UpdateItemFields(chore[e].target, chore[e].order)
    /\ EndChore(e)
    /\ UNCHANGED <<menu, arranged, mishaps, before, tardy>>

(* The items may be those of any menu, or deleted.                           *)
ReorderItems(e, orders) ==
    /\ StartChore(e, [step |-> "write", orders |-> orders])
    /\ UNCHANGED <<menu, item, mishaps, menuHistory>>

WriteOrder(e, i) ==
    /\ chore[e].step = "write" /\ i \in DOMAIN chore[e].orders
    /\ UpdateItemFields(i, chore[e].orders[i])
    /\ LET left == DOMAIN chore[e].orders \ {i}
       IN  IF left = {} THEN EndChore(e)
           ELSE chore' = [chore EXCEPT ![e].orders = [j \in left |-> @[j]]]
    /\ UNCHANGED <<menu, arranged, mishaps, before, tardy>>

DeleteItem(i) ==
    /\ i \in Items /\ item[i].live
    /\ item' = [item EXCEPT ![i].live = FALSE]
    /\ UNCHANGED <<menu, chore, arranged, mishaps, menuHistory>>

FindMenu(e, m) ==
    /\ menu[m] = "live"
    /\ StartChore(e, [step |-> "items", menu |-> m])
    /\ UNCHANGED <<menu, item, mishaps, menuHistory>>

(* For the mutant: the items of the menu are left where they are.            *)
NoneOf(m) == {}

ItemsToDelete(m) == LiveItems(m)

DeleteItems(e) ==
    /\ chore[e].step = "items"
    /\ item' = [i \in Items |-> IF i \in ItemsToDelete(chore[e].menu)
                                THEN [item[i] EXCEPT !.live = FALSE] ELSE item[i]]
    /\ chore' = [chore EXCEPT ![e].step = "menu"]
    /\ UNCHANGED <<menu, arranged, mishaps, menuHistory>>

DeleteMenu(e) ==
    /\ chore[e].step = "menu"
    /\ menu' = [menu EXCEPT ![chore[e].menu] = "deleted"]
    /\ EndChore(e)
    /\ UNCHANGED <<item, arranged, mishaps, menuHistory>>

(* A statement fails, or the process dies: what was written stays.           *)
ChoreFails(e) ==
    /\ chore[e] # NoChore /\ mishaps < MaxMishaps
    /\ mishaps' = mishaps + 1
    /\ tardy' = IF chore[e].step = "menu" THEN tardy \cup LiveItems(chore[e].menu) ELSE tardy
    /\ EndChore(e)
    /\ UNCHANGED <<menu, item, arranged, placed, before>>

MenusNext ==
    \/ \E m \in Menus : CreateMenu(m)
    \/ \E i \in Items : DeleteItem(i)
    \/ \E e \in Arrangers :
          \/ \E m \in Menus : AddItem(e, m) \/ FindMenu(e, m)
          \/ \E i \in Items, order \in Places : FindItem(e, i, order)
          \/ \E is \in SUBSET Items \ {{}} : \E orders \in [is -> Places] : ReorderItems(e, orders)
          \/ \E i \in Items : WriteOrder(e, i)
          \/ MaxItemSortOrder(e) \/ CreateItem(e) \/ UpdateItem(e)
          \/ DeleteItems(e) \/ DeleteMenu(e) \/ ChoreFails(e)

MenusSpec == MenusInit /\ [][MenusNext]_menuVars

---------------------------------------------------------------------------------
(* A new item stands behind every item its menu had when its place was       *)
(* chosen, however many were deleted between, unless one was moved since.    *)
NewItemsAreLast ==
    \A j \in Items : \A i \in before[j] :
        {i, j} \cap placed = {} => item[i].order < item[j].order

(* No item outlives its menu, unless it came while the menu was on its way   *)
(* out or gone.                                                              *)
ItemsGoWithTheirMenu ==
    \A i \in Items : item[i].live /\ menu[item[i].menu] = "deleted" => i \in tardy

MenusHold == NewItemsAreLast /\ ItemsGoWithTheirMenu
=================================================================================
