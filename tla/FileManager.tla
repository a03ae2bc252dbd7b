---------------------------- MODULE FileManager ----------------------------
(***************************************************************************)
(* The file manager of the browser (web/lib): what is selected, cut,       *)
(* copied, dragged and asked about, and the requests that come of it.      *)
(*                                                                         *)
(* Every handler acts on what the page knows: fs, the rows of the folders  *)
(* it has loaded, and folderTree, the folders of the side bar.  Both lag   *)
(* behind the server, each on its own.  The selection, the clipboard and   *)
(* an open menu outlive the folder they were made in, and a request that   *)
(* ends puts selection, clipboard and isMoving back whatever has happened  *)
(* since.                                                                  *)
(*                                                                         *)
(* A copy makes items that are nobody's target here.  Sorting is left out: *)
(* a range picked with shift is any set of rows with the one clicked.      *)
(***************************************************************************)
EXTENDS Integers, FiniteSets

CONSTANTS
    Item,      \* files and folders
    Dir,       \* those that are folders
    Root,      \* the folder "0"
    Gone,      \* deleted, or no row of it on the page
    None,      \* nothing
    Busy,      \* items whose scanStatus is pending or scanning
    Infected,  \* items whose scanStatus is infected
    Start,     \* where the items are at first
    MaxInputs  \* bound on what the user does

Folders == Dir \cup {Root}
Places == Folders \cup {Gone}

VARIABLES
    srv,    \* the server: where each item is
    rows,   \* fs of the page: per item the parent its row names
    tree,   \* folderTree of the page: per folder its parent
    ui,     \* the state of the components, a record
    ops,    \* requests under way
    inputs  \* how much the user has done

vars == <<srv, rows, tree, ui, ops, inputs>>

\* A clipboard, or what a dialog asks about: via names the control it came from,
\* late tells that a paste was under way when the clipboard was filled.
Empty == [ids |-> {}, cut |-> FALSE, src |-> None, via |-> "none", late |-> FALSE]
NoMenu == [open |-> FALSE, file |-> None, side |-> FALSE, taken |-> FALSE]
NoDialog == [type |-> "none", ids |-> {}, via |-> "none"]

Sources == {"none", "menu", "key", "bar"}
Clips == [ids : SUBSET Item, cut : BOOLEAN, src : Folders \cup {None}, via : Sources, late : BOOLEAN]
Dialogs == [type : {"none", "alert", "confirm"}, ids : SUBSET Item, via : Sources]
Menus == [open : BOOLEAN, file : Item \cup {None}, side : BOOLEAN, taken : BOOLEAN]
Pastes == {"paste", "menu_paste"}
Ops == [kind : {"move", "copy", "delete"}, ids : SUBSET Item, to : Folders \cup {None},
        via : Pastes \cup {"row", "side", "menu", "key"}]

\* mobile: the window is narrow; drag, marquee: None or a set of ids in an array;
\* later: a dialog that opens after the 100 ms a menu takes to close on a mobile.
UI == [mobile : BOOLEAN, cur : Folders, sel : SUBSET Item, clip : Clips, menu : Menus,
       drag : {{}} \cup {{S} : S \in SUBSET Item}, marquee : {{}} \cup {{S} : S \in SUBSET Item},
       dialog : Dialogs, later : Dialogs, highlight : Item \cup {None}, moving : BOOLEAN]

TypeOK ==
    /\ srv \in [Item -> Places] /\ rows \in [Item -> Places] /\ tree \in [Dir -> Places]
    /\ ui \in UI /\ ops \subseteq Ops /\ inputs \in 0..MaxInputs

Init ==
    /\ srv = Start
    /\ rows = [i \in Item |-> IF Start[i] = Root THEN Root ELSE Gone]
    /\ tree = [d \in Dir |-> Start[d]]
    /\ \E narrow \in BOOLEAN :
        ui = [mobile |-> narrow, cur |-> Root, sel |-> {}, clip |-> Empty, menu |-> NoMenu, drag |-> {},
              marquee |-> {}, dialog |-> NoDialog, later |-> NoDialog, highlight |-> None, moving |-> FALSE]
    /\ ops = {} /\ inputs = 0

-----------------------------------------------------------------------------
\* The folders met on the way up from t: a walk that stops where it has been.
Upward(parent, t) ==
    LET up[k \in 0..Cardinality(Dir)] ==
            IF k = 0 THEN t
            ELSE IF up[k - 1] \in DOMAIN parent THEN parent[up[k - 1]] ELSE up[k - 1]
    IN  {up[k] : k \in 0..Cardinality(Dir)}

\* Mutant: it looks at the parent of the target and no further.
IsDescendantOrSelfShallow(parent, source, target) ==
    \/ source = target
    \/ target \in DOMAIN parent /\ parent[target] = source

IsDescendantOrSelf(parent, source, target) == source \in Upward(parent, target)

\* filesByParent.get(f)
FilesIn(f) == {i \in Item : rows[i] = f}
CurrentFiles == FilesIn(ui.cur)

Pasting == \E op \in ops : op.via \in Pastes
Clip(ids, isCut, from) ==
    [ids |-> ids, cut |-> isCut, src |-> ui.cur, via |-> from, late |-> Pasting]
Confirm(S, from) == [type |-> "confirm", ids |-> S, via |-> from]

\* One thing the user does, and the state the components have after it.
Do(new) ==
    /\ inputs < MaxInputs /\ inputs' = inputs + 1
    /\ ui' = new
    /\ UNCHANGED <<srv, rows, tree>>

Input(new) == Do(new) /\ UNCHANGED ops
Request(op, new) == Do(new) /\ ops' = ops \cup {op}

\* The pointer has no button held, and nothing in its hands; a press outside the
\* menu closes it before it does anything else.
Free == ui.drag = {} /\ ui.marquee = {}
Outside == Free /\ ~ui.menu.open

-----------------------------------------------------------------------------
\* A row of the listing.  On a narrow window a tap opens, until something is selected.
TapSelects == ui.mobile => ui.sel # {}
TapOpens == ui.mobile => ui.sel = {}
Handled(i) == i \in CurrentFiles \ (Busy \cup Infected)
DropTargets == (CurrentFiles \cap Dir) \ Infected

ItemClick(i) ==
    /\ i \in CurrentFiles /\ Outside /\ TapSelects
    /\ \/ Input([ui EXCEPT !.sel = IF i \in @ THEN @ \ {i} ELSE @ \cup {i}])
       \/ \E range \in SUBSET CurrentFiles :
            i \in range /\ Input([ui EXCEPT !.sel = @ \cup range])
       \/ ~ui.mobile /\ Input([ui EXCEPT !.sel = {i}])

\* A double click has clicked the row before; on a mobile a tap opens it.
DoubleClick(i) ==
    /\ Handled(i) /\ i \in Dir /\ Outside /\ TapOpens
    /\ Input([ui EXCEPT !.sel = IF ui.mobile THEN @ ELSE {i}, !.cur = i])

\* A press of 400 ms, the button of the mouse included, is a right click: a drag
\* that has begun does not stop that timer.
Pressed(i) == Free \/ \E ids \in ui.drag : i \in ids

\* Mutant: the menu opens without selecting the row.
ContextMenuOnUnselected(i) ==
    /\ i \in CurrentFiles /\ ~ui.menu.open /\ Pressed(i)
    /\ LET opened == [NoMenu EXCEPT !.open = TRUE, !.file = i]
       IN  \/ ui.mobile /\ i \notin ui.sel /\ Input([ui EXCEPT !.sel = @ \cup {i}])
           \/ (ui.mobile => i \in ui.sel) /\ Input([ui EXCEPT !.menu = opened])

ContextMenuOn(i) ==
    /\ i \in CurrentFiles /\ ~ui.menu.open /\ Pressed(i)
    /\ LET opened == [NoMenu EXCEPT !.open = TRUE, !.file = i]
       IN  \/ ui.mobile /\ i \notin ui.sel /\ Input([ui EXCEPT !.sel = @ \cup {i}])
           \/ ui.mobile /\ i \in ui.sel /\ Input([ui EXCEPT !.menu = opened])
           \/ /\ ~ui.mobile
              /\ Input([ui EXCEPT !.sel = IF i \in @ THEN @ ELSE {i}, !.menu = opened])

ContextMenuOnNothing ==
    Outside /\ ~ui.mobile /\ Input([ui EXCEPT !.menu = [NoMenu EXCEPT !.open = TRUE]])

BackgroundClick == Outside /\ Input([ui EXCEPT !.sel = {}])

DragStart(i) ==
    /\ Handled(i) /\ Outside
    /\ LET idsToMove == IF i \in ui.sel THEN ui.sel ELSE {i}
       IN  Input([ui EXCEPT !.sel = idsToMove, !.drag = {idsToMove}])

DropOnFolder(folder) ==
    /\ folder \in DropTargets
    /\ \E ids \in ui.drag :
        IF \E i \in ids : IsDescendantOrSelf(rows, i, folder)
        THEN Input([ui EXCEPT !.drag = {}])
        ELSE Request([kind |-> "move", ids |-> ids, to |-> folder, via |-> "row"], [ui EXCEPT !.drag = {}])

DragEnd == ui.drag # {} /\ Input([ui EXCEPT !.drag = {}])

\* The rubber band starts from the selection of the moment if a modifier is held,
\* and sets the selection at every move of the mouse.
MarqueeStart(additive) ==
    /\ Outside /\ Input([ui EXCEPT !.marquee = {IF additive THEN ui.sel ELSE {}}])

MarqueeMove ==
    \E initial \in ui.marquee, covered \in SUBSET CurrentFiles :
        Input([ui EXCEPT !.sel = initial \cup covered])

MarqueeEnd == ui.marquee # {} /\ Input([ui EXCEPT !.marquee = {}])

-----------------------------------------------------------------------------
\* useFileActions: what the menu, the keys and the bars ask for.

\* A paste acts on the clipboard and the folder of the moment; neither is locked.
HandlePaste(via) ==
    /\ ui.clip.ids # {}
    /\ Request([kind |-> IF ui.clip.cut THEN "move" ELSE "copy", ids |-> ui.clip.ids,
                to |-> ui.cur, via |-> via], ui)

\* The keys work with a menu, a dialog or a modal open.  Delete opens its dialog in
\* the place of any other; copy and cut keep the selection.
KeyDown ==
    /\ ui.drag = {}
    /\ \/ Input([ui EXCEPT !.sel = CurrentFiles, !.menu.taken = ui.menu.open])
       \/ Input([ui EXCEPT !.sel = {}, !.menu = NoMenu])
       \/ ui.sel # {} /\ Input([ui EXCEPT !.dialog = Confirm(ui.sel, "key")])
       \/ ui.sel # {} /\ \E isCut \in BOOLEAN : Input([ui EXCEPT !.clip = Clip(ui.sel, isCut, "key")])
       \/ HandlePaste("paste")

\* The bar shown while something is selected.
SelectionPill ==
    /\ ui.sel # {} /\ Outside
    /\ Input([ui EXCEPT !.sel = IF CurrentFiles # {} /\ CurrentFiles \subseteq @ THEN {} ELSE CurrentFiles])

SelectionCopyCut(isCut) ==
    /\ ui.sel # {} /\ Outside
    /\ Input([ui EXCEPT !.clip = Clip(ui.sel, isCut, "bar"), !.sel = {}])

SelectionMore ==
    /\ ui.sel # {} /\ Outside
    /\ \E file \in {i \in ui.sel : ui.sel = {i} /\ rows[i] # Gone} \cup {None} :
        /\ file = None => ~\E i \in ui.sel : ui.sel = {i} /\ rows[i] # Gone
        /\ Input([ui EXCEPT !.menu = [NoMenu EXCEPT !.open = TRUE, !.file = file]])

\* Where the menu and the floating button offer to paste; the keys do not ask.
PasteOffered == ui.clip.ids # {} /\ ui.clip.src # ui.cur

FloatingPaste == ui.mobile /\ Outside /\ PasteOffered /\ HandlePaste("paste")

-----------------------------------------------------------------------------
\* The menu.  It acts on the selection if there is one and else on its file.
MenuTarget == IF ui.sel # {} THEN ui.sel ELSE {ui.menu.file} \ {None}
MenuOnFile == ui.menu.open /\ Free /\ (ui.menu.file # None \/ ui.sel # {})

CloseMenu ==
    /\ ui.menu.open /\ Free
    /\ ui' = [ui EXCEPT !.menu = NoMenu]
    /\ UNCHANGED <<srv, rows, tree, ops, inputs>>

MenuCopy ==
    /\ MenuOnFile
    /\ Input([ui EXCEPT !.clip = Clip(MenuTarget, FALSE, "menu"), !.sel = {}, !.menu = NoMenu])

MenuCut ==
    /\ MenuOnFile
    /\ Input([ui EXCEPT !.clip = Clip(MenuTarget, TRUE, "menu"), !.sel = {}, !.menu = NoMenu])

MenuDelete ==
    /\ MenuOnFile
    /\ LET asked == Confirm(MenuTarget, "menu")
       IN  IF ui.mobile
           THEN Input([ui EXCEPT !.menu = NoMenu, !.later = asked])
           ELSE Input([ui EXCEPT !.menu = NoMenu, !.dialog = asked])

\* triggerAction: 100 ms later.
DelayedAction ==
    /\ ui.later # NoDialog
    /\ ui' = [ui EXCEPT !.dialog = ui.later, !.later = NoDialog]
    /\ UNCHANGED <<srv, rows, tree, ops, inputs>>

\* When the paste has ended the menu is closed, whichever is open by then.
MenuPaste == ui.menu.open /\ Free /\ PasteOffered /\ HandlePaste("menu_paste")

-----------------------------------------------------------------------------
\* The side bar.

\* The folders drawn there: those that hang from Root.
Drawn == {d \in Dir : Root \in Upward(tree, d)}

\* Neither a click nor the menu of a folder touches the selection.
SideClick(node) == node \in Drawn /\ Outside /\ Input([ui EXCEPT !.cur = node])

SideMenu(node) ==
    /\ node \in Drawn /\ Outside
    /\ Input([ui EXCEPT !.cur = node, !.menu = [NoMenu EXCEPT !.open = TRUE, !.file = node, !.side = TRUE]])

SideDragStart(node) == node \in Drawn /\ Outside /\ Input([ui EXCEPT !.drag = {{node}}])

\* The folder takes the drop if nothing that is selected would go below itself.
CanDrop(node) == \A i \in ui.sel : ~IsDescendantOrSelf(tree, i, node)

SideDrop(node) ==
    /\ node \in Drawn /\ CanDrop(node)
    /\ \E idsToMove \in ui.drag :
        LET validIds == {i \in idsToMove : ~IsDescendantOrSelf(tree, i, node)}
        IN  IF validIds # {}
            THEN Request([kind |-> "move", ids |-> idsToMove, to |-> node, via |-> "side"],
                         [ui EXCEPT !.drag = {}, !.moving = TRUE])
            ELSE Input([ui EXCEPT !.drag = {}])

RootClick == Outside /\ Input([ui EXCEPT !.cur = Root])

RootMenu == Outside /\ Input([ui EXCEPT !.cur = Root, !.menu = [NoMenu EXCEPT !.open = TRUE]])

RootDrop ==
    \E ids \in ui.drag :
        Request([kind |-> "move", ids |-> ids, to |-> Root, via |-> "side"],
                [ui EXCEPT !.drag = {}, !.moving = TRUE])

\* A favourite: a folder is opened; so is the folder of a file, as far as the list
\* knows it, and the row is highlighted.
SelectListed(i, parentId) ==
    /\ Outside /\ parentId \in {Start[i], srv[i]} \ {Gone}
    /\ IF i \in Dir
       THEN Input([ui EXCEPT !.cur = i])
       ELSE Input([ui EXCEPT !.cur = parentId, !.highlight = i])

\* 100 ms after highlightedId or the folder has changed, if the row is drawn.
Highlighted ==
    /\ ui.highlight \in CurrentFiles
    /\ ui' = [ui EXCEPT !.sel = {ui.highlight}, !.menu.taken = ui.menu.open]
    /\ UNCHANGED <<srv, rows, tree, ops, inputs>>

HighlightOver ==
    /\ ui.highlight # None
    /\ ui' = [ui EXCEPT !.highlight = None]
    /\ UNCHANGED <<srv, rows, tree, ops, inputs>>

\* The path above the listing: a click there is one on the background, too.
Breadcrumbs == {Root} \cup (Upward([d \in Dir |-> IF rows[d] # Gone THEN rows[d] ELSE tree[d]], ui.cur) \cap Dir)

CrumbClick(id) == id \in Breadcrumbs /\ Outside /\ Input([ui EXCEPT !.cur = id, !.sel = {}])

-----------------------------------------------------------------------------
\* The dialog: one for all that ask and all that tell.

DialogConfirm ==
    /\ ui.dialog # NoDialog /\ Free
    /\ IF ui.dialog.type = "confirm"
       THEN Request([kind |-> "delete", ids |-> ui.dialog.ids, to |-> None, via |-> ui.dialog.via],
                    [ui EXCEPT !.dialog = NoDialog])
       ELSE Input([ui EXCEPT !.dialog = NoDialog])

DialogCancel == ui.dialog.type = "confirm" /\ Free /\ Input([ui EXCEPT !.dialog = NoDialog])

\* window.alert is a dialog here: a scan result or a failed download replaces a
\* question that is being asked.
Alert == Input([ui EXCEPT !.dialog = [NoDialog EXCEPT !.type = "alert"]])

-----------------------------------------------------------------------------
\* What the server makes of a request, and what the handler does then.
Applied(op) ==
    CASE op.kind = "move" -> [i \in Item |-> IF i \in op.ids \ {op.to} /\ srv[i] # Gone THEN op.to ELSE srv[i]]
      [] op.kind = "delete" -> [i \in Item |-> IF op.ids \cap Upward(srv, i) # {} THEN Gone ELSE srv[i]]
      [] OTHER -> srv

\* Mutant: a move in the side bar empties the clipboard with the selection.
SettledClearsClipboard(op, ok) ==
    CASE op.via = "paste" -> [ui EXCEPT !.clip = Empty]
      [] op.via = "menu_paste" -> [ui EXCEPT !.clip = Empty, !.menu = NoMenu]
      [] op.via = "side" -> [ui EXCEPT !.sel = {}, !.clip = Empty, !.moving = FALSE]
      [] op.kind = "delete" /\ ok -> [ui EXCEPT !.sel = {}]
      [] OTHER -> ui

Settled(op, ok) ==
    CASE op.via = "paste" -> [ui EXCEPT !.clip = Empty]
      [] op.via = "menu_paste" -> [ui EXCEPT !.clip = Empty, !.menu = NoMenu]
      [] op.via = "side" -> [ui EXCEPT !.sel = IF ok THEN {} ELSE @, !.moving = FALSE]
      [] op.kind = "delete" /\ ok -> [ui EXCEPT !.sel = {}]
      [] OTHER -> ui

Settle(op) ==
    /\ op \in ops /\ ops' = ops \ {op}
    /\ \E ok, done \in BOOLEAN :
        /\ ok => done
        /\ srv' = IF done THEN Applied(op) ELSE srv
        /\ ui' = Settled(op, ok)
    /\ UNCHANGED <<rows, tree, inputs>>

\* fetchFiles and fetchFolderTree, called after every change, by the polling and
\* on the way into a folder; Dashboard has the answers that come late.
RowsLoaded ==
    /\ rows' = [i \in Item |-> IF srv[i] = ui.cur THEN ui.cur ELSE IF rows[i] = ui.cur THEN Gone ELSE rows[i]]
    /\ UNCHANGED <<srv, tree, ui, ops, inputs>>

TreeLoaded ==
    /\ tree' = [d \in Dir |-> srv[d]]
    /\ UNCHANGED <<srv, rows, ui, ops, inputs>>

Next ==
    \/ \E i \in Item :
        \/ ItemClick(i) \/ DoubleClick(i) \/ ContextMenuOn(i) \/ DragStart(i) \/ DropOnFolder(i)
        \/ \E f \in Folders : SelectListed(i, f)
    \/ \E d \in Dir : SideClick(d) \/ SideMenu(d) \/ SideDragStart(d) \/ SideDrop(d)
    \/ \E f \in Folders : CrumbClick(f)
    \/ \E b \in BOOLEAN : MarqueeStart(b) \/ SelectionCopyCut(b)
    \/ ContextMenuOnNothing \/ BackgroundClick \/ DragEnd \/ MarqueeMove \/ MarqueeEnd
    \/ KeyDown \/ SelectionPill \/ SelectionMore \/ FloatingPaste
    \/ CloseMenu \/ MenuCopy \/ MenuCut \/ MenuDelete \/ DelayedAction \/ MenuPaste
    \/ RootClick \/ RootMenu \/ RootDrop \/ Highlighted \/ HighlightOver
    \/ DialogConfirm \/ DialogCancel \/ Alert
    \/ \E op \in ops : Settle(op)
    \/ RowsLoaded \/ TreeLoaded

Spec == Init /\ [][Next]_vars

-----------------------------------------------------------------------------
\* fileUtils.ts:4, "used to prevent circular moves in the file system": as long as
\* the page knows where the target is, a move that puts a folder below itself is
\* asked for by a paste, or by a drop in the side bar when what is selected is no
\* longer what is dragged, and something else is dragged along.
Known(parent, f) == \A d \in Upward(srv, f) \cap DOMAIN parent : parent[d] = srv[d]
Circular(op) == op.kind = "move" /\ \E i \in op.ids \ {op.to} : i \in Upward(srv, op.to)

MovesConfined ==
    \A op \in ops' \ ops : Circular(op) =>
        \/ op.via \in Pastes
        \/ op.via = "row" /\ ~Known(rows, op.to)
        \/ op.via = "side" /\ ~Known(tree, op.to)
        \/ op.via = "side" /\ ui.sel # op.ids /\ \E i \in op.ids : i \notin Upward(srv, op.to)

\* A folder is put below itself only where the page could not have known, or did not
\* look at what is dragged (isDescendantOrSelf and its callers).
CircularConfined == [][MovesConfined]_vars

\* What is cut, copied or asked about in a menu takes in the file that the menu was
\* opened on, unless that was done in the side bar, or the selection was set anew
\* under the open menu by Ctrl+A or by a highlight.
AsksOfItsFile ==
    \A question \in {ui'.clip, ui'.dialog, ui'.later} \ {ui.clip, ui.dialog, ui.later} :
        question.via = "menu" =>
            ui.menu.file \in question.ids \cup {None} \/ ui.menu.side \/ ui.menu.taken

\* What the menu asks for is about the file it was opened on (Workspace, ContextMenu).
MenuHitsItsFile == [][AsksOfItsFile]_vars

\* A clipboard is emptied by the paste of what is in it, or by an older paste that
\* was under way when it was filled.
ClipboardKept ==
    [][ui.clip.ids # {} /\ ui'.clip.ids = {} =>
        \E op \in ops \ ops' : op.via \in Pastes /\ (op.ids = ui.clip.ids \/ ui.clip.late)]_vars
=============================================================================
