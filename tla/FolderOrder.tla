----------------------------- MODULE FolderOrder -----------------------------
(***************************************************************************)
(* Arranging the folders of a mailbox (apps/web/src/pages/mail.tsx): the   *)
(* user's own folders are sorted by numbers among the fixed items, which   *)
(* have theirs in the code; folders get theirs when one is dropped, spread *)
(* over the gap between their fixed neighbours, and the server keeps them. *)
(* The sidebar then shows the sorted menu in two groups, the fixed items   *)
(* and the folders: what follows is the menu both are taken from, in which *)
(* the pages move and drop folders.                                        *)
(***************************************************************************)
EXTENDS Naturals, Sequences, FiniteSets

CONSTANTS
    CustomFolders,
    ByLabel,        \* every item of the sidebar in the order of the labels
    FixedItems,     \* the fixed items the user sees, without the send queue,
    MaxArranged     \* bound of the model: drops, folders created, changes by others, failures

VARIABLES
    sortOrder,   \* the server's folders, with their sort_order
    folderCache, \* what the browser holds of them
    folderFetch, \* answers to come: at most one
    reorder,     \* the reordering under way: the orders to be set, the cache before it, and
                 \* whether the server has done its part
    dragging,    \* the folder being dragged
    queueShown,  \* the send queue is not empty, and has an item in the sidebar
    dropped,     \* ghost: the sidebar as the last drop arranged it
    foreign,     \* ghost: another browser has arranged the folders since
    arranged

folderOrder == <<sortOrder, folderCache, folderFetch, reorder, dragging, queueShown,
                 dropped, foreign, arranged>>

BaseOrder == 100000
NoReorder == [items |-> <<>>, previous |-> <<>>, phase |-> "none"]

\* menuAnchorOrder, and the orders of the special items.
MenuAnchorOrder == [Inbox |-> 1000, Drafts |-> 2000, Sent |-> 3000, Archive |-> 4000, Trash |-> 5000,
                    starred |-> 6000, scheduled |-> 7000, unknown |-> 8000, Spam |-> 9000,
                    sendQueue |-> 10000]
AllAnchors == FixedItems \cup {"sendQueue"}
Anchors == FixedItems \cup (IF queueShown THEN {"sendQueue"} ELSE {})

\* Sequences without repetitions, as functions (SequencesExt's InsertAt and RemoveAt concatenate): the
\* elements, the place of one, the sequence without one, and with x put before place i.
Elements(s)  == {s[i] : i \in DOMAIN s}
Distinct(s)  == \A i, j \in DOMAIN s : s[i] = s[j] => i = j
Place(s, x)  == CHOOSE i \in DOMAIN s : s[i] = x
Without(s, x)   == [i \in 1..Len(s) - 1 |-> IF i < Place(s, x) THEN s[i] ELSE s[i + 1]]
PutIn(s, i, x)  == [j \in 1..Len(s) + 1 |-> IF j < i THEN s[j] ELSE IF j = i THEN x ELSE s[j - 1]]

ASSUME FolderOrderAssumption ==
    /\ IsFiniteSet(CustomFolders) /\ MaxArranged \in Nat
    /\ AllAnchors \subseteq DOMAIN MenuAnchorOrder /\ CustomFolders \cap AllAnchors = {}
    /\ ByLabel \in Seq(CustomFolders \cup AllAnchors)
    /\ Elements(ByLabel) = CustomFolders \cup AllAnchors /\ Distinct(ByLabel)

\* The items of the menu for the folders "orders" tells of, and which of two comes first: by order,
\* then by label.
Items(orders) == DOMAIN orders \cup Anchors
OrderOf(orders, x) == IF x \in DOMAIN orders THEN orders[x] ELSE MenuAnchorOrder[x]
Before(orders, x, y) ==
    \/ OrderOf(orders, x) < OrderOf(orders, y)
    \/ OrderOf(orders, x) = OrderOf(orders, y) /\ Place(ByLabel, x) < Place(ByLabel, y)

\* mailMenuItems: the sorted sequence of the items.
MailMenuItems(orders) ==
    LET Rank(x) == 1 + Cardinality({y \in Items(orders) : Before(orders, y, x)})
    IN  [i \in 1..Cardinality(Items(orders)) |-> CHOOSE x \in Items(orders) : Rank(x) = i]

\* The first and the last place of the group of folders around place i.
GroupStart(menu, i) == CHOOSE s \in 1..i : /\ \A j \in s..i : menu[j] \in CustomFolders
                                           /\ s = 1 \/ menu[s - 1] \notin CustomFolders
GroupEnd(menu, i) == CHOOSE e \in i..Len(menu) : /\ \A j \in i..e : menu[j] \in CustomFolders
                                                 /\ e = Len(menu) \/ menu[e + 1] \notin CustomFolders

Larger(a, b) == IF a > b THEN a ELSE b
\* Bug: the last folder of a group gets the order of the fixed item after it.
StepToTheEnd(start, end, n) == Larger(1, (end - start) \div n)
StepOf(start, end, n) == Larger(1, (end - start) \div (n + 1))

\* The orders of the fixed items around the group of place i, or what stands for them.
GapStart(menu, i) ==
    LET s == GroupStart(menu, i) IN IF s = 1 THEN 0 ELSE MenuAnchorOrder[menu[s - 1]]
GroupSize(menu, i) == GroupEnd(menu, i) - GroupStart(menu, i) + 1
GapEnd(menu, i) ==
    LET e == GroupEnd(menu, i) IN
    IF e = Len(menu) THEN GapStart(menu, i) + (GroupSize(menu, i) + 1) * 1000
    ELSE MenuAnchorOrder[menu[e + 1]]

AssignCustomFolderOrders(menu) ==
    [f \in Elements(menu) \cap CustomFolders |->
        LET i    == Place(menu, f)
            step == StepOf(GapStart(menu, i), GapEnd(menu, i), GroupSize(menu, i))
        IN  GapStart(menu, i) + step * (i - GroupStart(menu, i) + 1)]

FolderOrderInit ==
    /\ sortOrder = [f \in CustomFolders |-> BaseOrder + Place(ByLabel, f)]
    /\ folderCache = sortOrder
    /\ folderFetch = {} /\ reorder = NoReorder /\ dragging = {}
    /\ queueShown = FALSE /\ dropped = <<>> /\ foreign = FALSE /\ arranged = 0

------------------------------------------------------------------------------
Counted == arranged < MaxArranged /\ arranged' = arranged + 1

\* reorderCustomFolder: f is taken out and put in again before place i of the rest.
DropBefore(f, i) ==
    LET rest == Without(MailMenuItems(folderCache), f)
        nextMenu == PutIn(rest, i, f)
    IN  /\ reorder = NoReorder /\ f \in DOMAIN folderCache /\ i \in 1..Len(rest) + 1
        /\ Counted
        /\ reorder' = [items |-> AssignCustomFolderOrders(nextMenu),
                       previous |-> folderCache, phase |-> "asked"]
        \* onMutate: requests for the folders are cancelled.
        /\ folderCache' = [g \in DOMAIN folderCache |-> reorder'.items[g]]
        /\ folderFetch' = {}
        /\ dropped' = nextMenu /\ foreign' = FALSE
        /\ UNCHANGED <<sortOrder, queueShown>>

\* moveSidebarFolder, of the menu of a folder: to the top, up, down, to the bottom.
MoveSidebarFolder(f) ==
    LET menu == MailMenuItems(folderCache)
        i    == Place(menu, f)
    IN  /\ f \in DOMAIN folderCache /\ dragging' = dragging
        /\ \/ i > 1 /\ DropBefore(f, 1)
           \/ i > 1 /\ DropBefore(f, i - 1)
           \/ i < Len(menu) /\ DropBefore(f, i + 1)
           \/ DropBefore(f, Len(menu))

\* Dragging: the item under the pointer when the folder is dropped is one of the menu then.
HandleFolderDragStart(f) ==
    /\ dragging = {} /\ f \in DOMAIN folderCache
    /\ dragging' = {f}
    /\ UNCHANGED <<sortOrder, folderCache, folderFetch, reorder, queueShown, dropped, foreign, arranged>>
HandleFolderDrop(f) ==
    /\ f \in dragging /\ dragging' = {}
    /\ \/ \E i \in 1..Cardinality(DOMAIN folderCache \cup Anchors) : DropBefore(f, i)
       \/ UNCHANGED <<sortOrder, folderCache, folderFetch, reorder, queueShown, dropped, foreign, arranged>>

\* handleReorderMailFolders: exactly the folders there are, in one transaction.
ReorderServed ==
    /\ reorder.phase = "asked" /\ DOMAIN reorder.items = DOMAIN sortOrder
    /\ sortOrder' = reorder.items
    /\ reorder' = [reorder EXCEPT !.phase = "served"]
    /\ UNCHANGED <<folderCache, folderFetch, dragging, queueShown, dropped, foreign, arranged>>

\* onSettled: the folders are asked for again.
ReorderAnswered ==
    /\ reorder.phase = "served"
    /\ reorder' = NoReorder
    /\ folderFetch' = {sortOrder}
    /\ UNCHANGED <<sortOrder, folderCache, dragging, queueShown, dropped, foreign, arranged>>

\* onError: refused for the folders are others by now, or lost before or after the server's part.
ReorderFails ==
    /\ reorder # NoReorder
    /\ \/ DOMAIN reorder.items # DOMAIN sortOrder /\ arranged' = arranged
       \/ Counted
    /\ folderCache' = reorder.previous
    /\ reorder' = NoReorder /\ folderFetch' = {sortOrder} /\ dropped' = <<>>
    /\ UNCHANGED <<sortOrder, dragging, queueShown, foreign>>

\* The query of the folders, asked by every refresh of the page.
FoldersAsked ==
    /\ folderFetch' = {sortOrder}
    /\ UNCHANGED <<sortOrder, folderCache, reorder, dragging, queueShown, dropped, foreign, arranged>>
FoldersAnswered ==
    /\ folderFetch # {}
    /\ folderCache' \in folderFetch /\ folderFetch' = {}
    /\ UNCHANGED <<sortOrder, reorder, dragging, queueShown, dropped, foreign, arranged>>

\* createFolder, here or elsewhere: nextCustomFolderSortOrder puts the folder behind the others.
CreateFolder(f) ==
    /\ f \notin DOMAIN sortOrder /\ Counted
    /\ LET last == {sortOrder[g] : g \in DOMAIN sortOrder} \cup {BaseOrder}
           order == 1 + CHOOSE n \in last : \A k \in last : k <= n
       IN  sortOrder' = [g \in DOMAIN sortOrder \cup {f} |-> IF g = f THEN order ELSE sortOrder[g]]
    /\ folderFetch' \in {folderFetch, {sortOrder'}}
    /\ UNCHANGED <<folderCache, reorder, dragging, queueShown, dropped, foreign>>

\* deleteFolder, here or elsewhere; a folder created later under its name is another one.
DeleteFolder(f) ==
    /\ f \in DOMAIN sortOrder /\ Counted
    /\ sortOrder' = [g \in DOMAIN sortOrder \ {f} |-> sortOrder[g]]
    /\ folderFetch' \in {folderFetch, {sortOrder'}}
    /\ dropped' = IF f \in Elements(dropped) THEN Without(dropped, f) ELSE dropped
    /\ UNCHANGED <<folderCache, reorder, dragging, queueShown, foreign>>

\* Another browser arranges the folders: it takes one to the top, say.
ArrangedElsewhere ==
    /\ Counted /\ foreign' = TRUE
    /\ \E f \in DOMAIN sortOrder :
          sortOrder' = AssignCustomFolderOrders(PutIn(Without(MailMenuItems(sortOrder), f), 1, f))
    /\ UNCHANGED <<folderCache, folderFetch, reorder, dragging, queueShown, dropped>>

\* The query of the send queue, every 15 seconds.
SendQueueCounted ==
    /\ queueShown' = ~queueShown
    /\ UNCHANGED <<sortOrder, folderCache, folderFetch, reorder, dragging, dropped, foreign, arranged>>

FolderOrderNext ==
    \/ \E f \in CustomFolders : \/ MoveSidebarFolder(f) \/ HandleFolderDragStart(f)
                                \/ HandleFolderDrop(f) \/ CreateFolder(f) \/ DeleteFolder(f)
    \/ ReorderServed \/ ReorderAnswered \/ ReorderFails
    \/ FoldersAsked \/ FoldersAnswered \/ ArrangedElsewhere \/ SendQueueCounted

------------------------------------------------------------------------------
FolderOrderTypeOK ==
    /\ DOMAIN sortOrder \subseteq CustomFolders /\ DOMAIN folderCache \subseteq CustomFolders
    /\ \A f \in DOMAIN sortOrder : sortOrder[f] > 0
    /\ reorder.phase \in {"none", "asked", "served"}
    /\ Cardinality(folderFetch) <= 1 /\ Cardinality(dragging) <= 1

\* A folder stays where it was dropped: once the reordering is answered, the menu made of the
\* server's folders has every two items that were there in the order the drop left them in, even
\* after folders come and go, unless the reordering failed or another browser made one.
DropIsKept ==
    LET menu == MailMenuItems(folderCache) IN
    reorder = NoReorder /\ folderFetch = {} /\ ~foreign
    => \A x, y \in Elements(dropped) :
          {x, y} \subseteq Elements(menu) /\ Place(dropped, x) < Place(dropped, y)
          => Place(menu, x) < Place(menu, y)
=============================================================================
