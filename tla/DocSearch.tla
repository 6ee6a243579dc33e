------------------------------ MODULE DocSearch ------------------------------
(* The search box of the documentation pages (docs/html/search/search.js, with   *)
(* the parts of menu.js and cookie.js it needs): its timers, the index files it  *)
(* loads, the result list and the keyboard in it.                                *)
(*                                                                               *)
(* Letters are numbers in the order of the index; texts have no spaces.  The     *)
(* index files themselves are not part of the repository: Index stands for them. *)
EXTENDS Integers, Sequences, FiniteSets

CONSTANTS
  Letter,     \* letters, in the order of the index
  Text,       \* texts the user types
  Sections,   \* number of sections (indexSectionNames)
  Index,      \* rows of the file of a section and a letter, where there is one
  None,       \* no file
  MaxSteps,   \* bound: what the user does
  MaxTimers, MaxLoads, MaxFailures   \* bounds

Section == 0..(Sections - 1)
Rows(f) == IF f = None THEN <<>> ELSE Index[f]

\* The first file of a section: indexOf finds the empty string at 0.
FirstFile(s, c) ==
  <<s, c>> \in DOMAIN Index /\ \A d \in Letter : <<s, d>> \in DOMAIN Index => c <= d

ASSUME IndexAssumption ==
  /\ Letter \subseteq Nat /\ Text \subseteq Seq(Letter) /\ <<>> \in Text
  /\ Sections \in Nat \ {0} /\ DOMAIN Index \subseteq Section \X Letter /\ None \notin DOMAIN Index
  /\ \A s \in Section : \E c \in Letter : FirstFile(s, c)
  /\ \A f \in DOMAIN Index : Index[f] \in Seq([name : Seq(Letter), kids : Nat])
  /\ {MaxSteps, MaxTimers, MaxLoads, MaxFailures} \subseteq Nat

VARIABLES
  field,     \* text of the search field
  active,    \* searchActive
  last,      \* lastSearchValue
  timers,    \* search timers pending, and whether keyTimeout holds one of them
  index,     \* searchIndex
  cookie,    \* the section saved for the session
  popup,     \* the section popup: displayed, and hide timer pending
  pointer,   \* the pointer is over the icon or the popup
  wired,     \* the icon still has its key handler
  loads,     \* index files being loaded, oldest first
  list,      \* the result list: file, visible and open rows, NoMatches, window
  focus,     \* the element with the focus
  made,      \* history: the searches made on this page, text and file
  produced,  \* history: the text of the search that filled the list
  orderly,   \* history: no load has failed or been overtaken
  spent      \* what the bounds count

vars == <<field, active, last, timers, index, cookie, popup, pointer, wired, loads, list,
          focus, made, produced, orderly, spent>>

-----------------------------------------------------------------------------
At(what) == [at |-> what, row |-> 0, kid |-> 0]
OnRow(i, k) == [at |-> "row", row |-> i, kid |-> k]

Row == 1..Len(Rows(list.file))
Kids(i) == IF i \in Row THEN Rows(list.file)[i].kids ELSE 0

\* An element can have the focus while it is displayed.
CanFocus(f) ==
  f.at = "row" => /\ list.shown /\ f.row \in list.visible
                  /\ f.kid # 0 => f.row \in list.open

\* searchResults.Search: the rows whose name begins with v; the empty text is in
\* all of them.
Matches(v, rows) ==
  {i \in 1..Len(rows) : Len(v) <= Len(rows[i].name) /\ SubSeq(rows[i].name, 1, Len(v)) = v}

\* The file for text v in section s.
FileFor(s, v) ==
  IF v = <<>> THEN <<s, CHOOSE c \in Letter : FirstFile(s, c)>>
  ELSE IF <<s, v[1]>> \in DOMAIN Index THEN <<s, v[1]>> ELSE None

\* handleResults: createResults renders the file loaded last, and the forced empty search
\* hides every row when there is no file for the search.
HandleResults(v, f) ==
  LET file == IF f = None THEN list.file ELSE f
      visible == IF f = None THEN {} ELSE Matches(v, Rows(f))
  IN /\ list' = [file |-> file, visible |-> visible,
                 open |-> {}, none |-> visible = {}, shown |-> TRUE]
     /\ produced' = v

\* What has the focus after the rows have been replaced.
Refocused(f) == IF f.at = "row" THEN At("none") ELSE f

\* Mutant: the callback sees the text of the search before.
RequestOfLast(s) == [value |-> last, file |-> FileFor(s, field)]
\* What the callback of a search closes over.
Request(s) == [value |-> field, file |-> FileFor(s, field)]

\* A search for which no file is loaded shows its result at once.
AtOnce(s) == s \in Section /\ FileFor(s, field) = None

\* SearchBox.Search.  In a section that does not exist it throws when it looks for
\* the file, which leaves everything but keyTimeout as it was.
Search(s, pending) ==
  /\ timers' = [pending |-> pending, held |-> FALSE]
  /\ IF s \notin Section
     THEN UNCHANGED <<last, loads, list, made, produced, orderly>>
     ELSE /\ last' = field
          /\ made' = made \cup {[value |-> field, file |-> FileFor(s, field)]}
          /\ IF AtOnce(s)
             THEN /\ HandleResults(field, None)
                  /\ orderly' = (orderly /\ loads = <<>>) /\ loads' = loads
             ELSE /\ Len(loads) < MaxLoads
                  /\ loads' = Append(loads, Request(s))
                  /\ UNCHANGED <<list, produced, orderly>>

-----------------------------------------------------------------------------
(* The field.                                                                  *)

User(what) ==
  /\ spent.steps < MaxSteps
  /\ spent' = [spent EXCEPT !.steps = @ + 1]
  /\ what

\* Mutant: the text stays.
DeactivatedKeepsText(shown) ==
  IF shown THEN active' = TRUE /\ UNCHANGED <<field, last>>
  ELSE active' = FALSE /\ field' = field /\ last' = <<>>

\* Activate(false) when the results window is displayed, and when it is not.
Deactivated(shown) ==
  IF shown THEN active' = TRUE /\ UNCHANGED <<field, last>>
  ELSE active' = FALSE /\ field' = <<>> /\ last' = <<>>

\* Whatever takes the focus from the field runs onblur first.
Blurred ==
  IF focus.at = "field" THEN Deactivated(list.shown) ELSE UNCHANGED <<field, active, last>>

FocusField ==
  /\ focus.at # "field" /\ focus' = At("field") /\ active' = TRUE
  /\ UNCHANGED <<field, last, timers, index, cookie, popup, pointer, wired, loads, list,
                 made, produced, orderly>>

Leave ==
  /\ \E x \in {"none", "icon"} : focus.at # x /\ focus' = At(x)
  /\ Blurred
  /\ UNCHANGED <<timers, index, cookie, popup, pointer, wired, loads, list, made, produced, orderly>>

\* By keyboard or mouse; the handler is on keyup only.
EditField ==
  /\ focus.at = "field" /\ field' \in Text \ {field}
  /\ UNCHANGED <<active, last, timers, index, cookie, popup, pointer, wired, loads, list,
                 focus, made, produced, orderly>>

\* The first visible row from i on, and the last one up to i; 0 if there is none.
NavNext(i) ==
  LET s == {j \in list.visible : j >= i}
  IN IF s = {} THEN 0 ELSE CHOOSE j \in s : \A k \in s : j <= k
NavPrev(i) ==
  LET s == {j \in list.visible : j <= i}
  IN IF s = {} THEN 0 ELSE CHOOSE j \in s : \A k \in s : j >= k

\* Timers left when OnSearchFieldChange has cleared the one it knows of.
Cleared == IF timers.held THEN timers.pending - 1 ELSE timers.pending

\* The end of OnSearchFieldChange, with the element that has the focus by then.
FieldChanged(f) ==
  IF field = last
  THEN /\ timers' = [pending |-> Cleared, held |-> FALSE]
       /\ focus' = f /\ UNCHANGED <<last, list>>
  ELSE IF field # <<>>
  THEN /\ Cleared < MaxTimers
       /\ timers' = [pending |-> Cleared + 1, held |-> TRUE]
       /\ focus' = f /\ UNCHANGED <<last, list>>
  ELSE /\ timers' = [pending |-> Cleared, held |-> FALSE]
       /\ list' = [list EXCEPT !.shown = FALSE] /\ last' = <<>> /\ focus' = Refocused(f)

KeyUp ==
  /\ focus.at = "field" /\ FieldChanged(focus)
  /\ UNCHANGED <<field, active, index, cookie, popup, pointer, wired, loads, made, produced, orderly>>

\* Down or Enter goes to the first row, if that is on display, and then on.
KeyUpDown ==
  /\ focus.at = "field"
  /\ LET first == OnRow(NavNext(1), 0)
     IN FieldChanged(IF first.row # 0 /\ CanFocus(first) THEN first ELSE focus)
  /\ UNCHANGED <<field, active, index, cookie, popup, pointer, wired, loads, made, produced, orderly>>

KeyUpShiftDown ==
  /\ focus.at = "field"
  /\ timers' = [pending |-> Cleared, held |-> FALSE]
  /\ popup' = [shown |-> TRUE, hiding |-> FALSE]
  /\ Blurred /\ focus' = At("popup")
  /\ UNCHANGED <<index, cookie, pointer, wired, loads, list, made, produced, orderly>>

KeyUpEscape ==
  /\ focus.at = "field"
  /\ timers' = [pending |-> Cleared, held |-> FALSE]
  /\ list' = [list EXCEPT !.shown = FALSE]
  /\ Deactivated(FALSE) /\ focus' = At("none")
  /\ UNCHANGED <<index, cookie, popup, pointer, wired, loads, made, produced, orderly>>

-----------------------------------------------------------------------------
(* The section popup.                                                          *)

PointerOver ==
  /\ ~pointer /\ pointer' = TRUE
  /\ popup' = [shown |-> TRUE, hiding |-> FALSE]
  /\ UNCHANGED <<field, active, last, timers, index, cookie, wired, loads, list, focus,
                 made, produced, orderly>>

\* OnSearchSelectHide
PointerOut ==
  /\ pointer /\ pointer' = FALSE
  /\ popup' = [popup EXCEPT !.hiding = TRUE]
  /\ UNCHANGED <<field, active, last, timers, index, cookie, wired, loads, list, focus,
                 made, produced, orderly>>

\* SelectItemSet marks the section that has this number, if there is one, and
\* writes its name for the session; what init_search reads back on the next page.
SaveSection(s) == cookie' = IF s \in Section THEN s ELSE cookie
SavedSection == cookie

\* OnSelectItem
SelectItem(s, searches) ==
  /\ index' = s
  /\ SaveSection(s)
  /\ IF searches THEN Search(s, timers.pending)
     ELSE UNCHANGED <<last, timers, loads, list, made, produced, orderly>>

\* A click on a section takes the focus from the field first, which may empty it.
ClickSection ==
  /\ popup.shown /\ pointer
  /\ focus' = At("popup")
  /\ IF focus.at = "field" /\ ~list.shown
     THEN /\ Deactivated(FALSE)
          /\ \E s \in Section : index' = s /\ SaveSection(s)
          /\ UNCHANGED <<timers, loads, list, made, produced, orderly>>
     ELSE /\ \E s \in Section : SelectItem(s, field # <<>> /\ active)
          /\ UNCHANGED <<field, active>>
  /\ UNCHANGED <<popup, pointer, wired>>

\* Mutant: one further.
SelectKeyFurther ==
  /\ focus.at = "popup" /\ popup.shown
  /\ \/ index <= Sections /\ SelectItem(index + 1, field # <<>> /\ active)
     \/ index > 0 /\ SelectItem(index - 1, field # <<>> /\ active)
  /\ UNCHANGED <<field, active, popup, pointer, wired, focus>>

\* OnSearchSelectKey: the test for Down lets the index reach the number of sections.
SelectKey ==
  /\ focus.at = "popup" /\ popup.shown
  /\ \/ index < Sections /\ SelectItem(index + 1, field # <<>> /\ active)
     \/ index > 0 /\ SelectItem(index - 1, field # <<>> /\ active)
  /\ UNCHANGED <<field, active, popup, pointer, wired, focus>>

\* Enter or Escape: when the search throws, the popup stays open and has the focus.
SelectEnd ==
  /\ focus.at = "popup" /\ popup.shown
  /\ LET searches == field # <<>> /\ active
     IN /\ SelectItem(index, searches)
        /\ IF searches /\ index \notin Section
           THEN UNCHANGED <<popup, focus, active>>
           ELSE /\ popup' = [popup EXCEPT !.shown = FALSE]
                /\ focus' = At("field") /\ active' = TRUE
  /\ UNCHANGED <<field, pointer, wired>>

\* The key handler that init_search gives to the icon.
IconKey ==
  /\ focus.at = "icon" /\ wired
  /\ IF popup.shown
     THEN popup' = [popup EXCEPT !.shown = FALSE] /\ focus' = focus
     ELSE popup' = [shown |-> TRUE, hiding |-> FALSE] /\ focus' = At("popup")
  /\ UNCHANGED <<field, active, last, timers, index, cookie, pointer, wired, loads, list,
                 made, produced, orderly>>

-----------------------------------------------------------------------------
(* The result list.  Each action is one keydown, or a click.                   *)

\* Focus goes to f if f is on display.
FocusOn(f) == focus' = IF CanFocus(f) THEN f ELSE focus
ToField == focus' = At("field") /\ active' = TRUE

\* Nav, Up: the children looked at are those of the row above, wherever the focus
\* would go.
NavUp ==
  /\ focus.at = "row" /\ focus.kid = 0
  /\ LET p == NavPrev(focus.row - 1)
         above == Kids(focus.row - 1)
     IN IF p = 0 THEN ToField
        ELSE /\ FocusOn(IF p \in list.open /\ above > 0 THEN OnRow(focus.row - 1, above)
                        ELSE OnRow(p, 0))
             /\ active' = active
  /\ list' = list

NavDown ==
  /\ focus.at = "row" /\ focus.kid = 0
  /\ LET n == NavNext(focus.row + 1)
     IN IF focus.row \in list.open THEN FocusOn(OnRow(focus.row, 1))
        ELSE IF n # 0 THEN FocusOn(OnRow(n, 0)) ELSE focus' = focus
  /\ UNCHANGED <<active, list>>

\* Mutant: the keys work on a child as well.
NavOpenAnywhere ==
  /\ focus.at = "row" /\ Kids(focus.row) > 0
  /\ \/ list' = [list EXCEPT !.open = @ \cup {focus.row}]
     \/ list' = [list EXCEPT !.open = @ \ {focus.row}]
  /\ UNCHANGED <<active, focus>>

\* Right, Left, and Toggle by Enter or by a click on a row with children.
NavOpen ==
  /\ focus.at = "row" /\ focus.kid = 0 /\ Kids(focus.row) > 0
  /\ \/ list' = [list EXCEPT !.open = @ \cup {focus.row}]
     \/ list' = [list EXCEPT !.open = @ \ {focus.row}]
  /\ UNCHANGED <<active, focus>>

NavChild ==
  /\ focus.at = "row" /\ focus.kid # 0
  /\ LET n == NavNext(focus.row + 1)
     IN \/ FocusOn(OnRow(focus.row, focus.kid - 1))
        \/ focus.kid < Kids(focus.row) /\ FocusOn(OnRow(focus.row, focus.kid + 1))
        \/ focus.kid = Kids(focus.row) /\ n # 0 /\ FocusOn(OnRow(n, 0))
  /\ UNCHANGED <<active, list>>

NavList ==
  /\ NavUp \/ NavDown \/ NavOpen \/ NavChild
  /\ UNCHANGED <<field, last, timers, index, cookie, popup, pointer, wired, loads, made, produced,
                 orderly>>

\* A click on a row with children: the focus goes there and the row is toggled.
ClickRow ==
  /\ list.shown
  /\ \E i \in list.visible :
       /\ Kids(i) > 0 /\ focus' = OnRow(i, 0)
       /\ list' = [list EXCEPT !.open = IF i \in @ THEN @ \ {i} ELSE @ \cup {i}]
  /\ Blurred
  /\ UNCHANGED <<timers, index, cookie, popup, pointer, wired, loads, made, produced, orderly>>

\* CloseResultsWindow, by its button or by opening a result; Escape in the list goes
\* back to the field.
CloseResults ==
  /\ list.shown
  /\ list' = [list EXCEPT !.shown = FALSE]
  /\ field' = <<>> /\ last' = <<>>
  /\ \/ focus' = At("none") /\ active' = FALSE
     \/ focus.at = "row" /\ ToField
  /\ UNCHANGED <<timers, index, cookie, popup, pointer, wired, loads, made, produced, orderly>>

-----------------------------------------------------------------------------
(* The page.                                                                   *)

\* menu.js: a change of the window's width renders the box anew; the pointer is at
\* the window's edge then.
Resize ==
  /\ ~pointer
  /\ list' = [list EXCEPT !.shown = FALSE] /\ Deactivated(FALSE)
  /\ focus' = IF focus.at = "popup" THEN focus ELSE At("none")
  /\ wired' = FALSE
  /\ UNCHANGED <<timers, index, cookie, popup, pointer, loads, made, produced, orderly>>

BlankList == [file |-> None, visible |-> {}, open |-> {}, none |-> FALSE, shown |-> FALSE]

\* Another page of the documentation: init_search selects the section saved.
Reload ==
  /\ field' = <<>> /\ active' = FALSE /\ last' = <<>>
  /\ timers' = [pending |-> 0, held |-> FALSE]
  /\ index' = SavedSection /\ SaveSection(SavedSection)
  /\ popup' = [shown |-> FALSE, hiding |-> FALSE] /\ pointer' = FALSE /\ wired' = TRUE
  /\ loads' = <<>> /\ list' = BlankList /\ focus' = At("none")
  /\ made' = {} /\ produced' = <<>> /\ orderly' = TRUE

-----------------------------------------------------------------------------
(* Timers and loads.                                                           *)

SearchTimer ==
  /\ timers.pending > 0
  /\ Search(index, timers.pending - 1)
  /\ focus' = IF AtOnce(index) THEN Refocused(focus) ELSE focus
  /\ UNCHANGED <<field, active, index, cookie, popup, pointer, wired, spent>>

HideTimer ==
  /\ popup.hiding
  /\ popup' = [shown |-> FALSE, hiding |-> FALSE]
  /\ focus' = IF focus.at = "popup" THEN At("none") ELSE focus
  /\ UNCHANGED <<field, active, last, timers, index, cookie, pointer, wired, loads, list,
                 made, produced, orderly, spent>>

Without(s, i) == SubSeq(s, 1, i - 1) \o SubSeq(s, i + 1, Len(s))

\* A script arrives; the scripts requested before it may still be on their way.
LoadEnds ==
  /\ \E i \in 1..Len(loads) :
       /\ HandleResults(loads[i].value, loads[i].file)
       /\ loads' = Without(loads, i)
       /\ orderly' = (orderly /\ i = 1)
  /\ focus' = Refocused(focus)
  /\ UNCHANGED <<field, active, last, timers, index, cookie, popup, pointer, wired, made,
                 spent>>

\* There is no onerror.
LoadFails ==
  /\ loads # <<>> /\ spent.failures < MaxFailures
  /\ spent' = [spent EXCEPT !.failures = @ + 1]
  /\ \E i \in 1..Len(loads) : loads' = Without(loads, i)
  /\ orderly' = FALSE
  /\ UNCHANGED <<field, active, last, timers, index, cookie, popup, pointer, wired, list,
                 focus, made, produced>>

-----------------------------------------------------------------------------
Init ==
  /\ field = <<>> /\ active = FALSE /\ last = <<>>
  /\ timers = [pending |-> 0, held |-> FALSE] /\ index = 0 /\ cookie = 0
  /\ popup = [shown |-> FALSE, hiding |-> FALSE] /\ pointer = FALSE /\ wired = TRUE
  /\ loads = <<>> /\ list = BlankList /\ focus = At("none")
  /\ made = {} /\ produced = <<>> /\ orderly = TRUE
  /\ spent = [steps |-> 0, failures |-> 0]

Next ==
  \/ User(FocusField) \/ User(Leave) \/ User(EditField)
  \/ User(KeyUp) \/ User(KeyUpDown) \/ User(KeyUpShiftDown) \/ User(KeyUpEscape)
  \/ User(PointerOver) \/ User(PointerOut) \/ User(ClickSection) \/ User(SelectKey)
  \/ User(SelectEnd) \/ User(IconKey)
  \/ User(NavList) \/ User(ClickRow) \/ User(CloseResults)
  \/ User(Resize) \/ User(Reload)
  \/ SearchTimer \/ HideTimer \/ LoadEnds \/ LoadFails

Spec == Init /\ [][Next]_vars

-----------------------------------------------------------------------------
(* Properties.                                                                *)

\* Every variable has its type, and keyTimeout holds a timer only while one is
\* pending.
TypeOK ==
  /\ field \in Text /\ last \in Text /\ active \in BOOLEAN
  /\ timers \in [pending : 0..MaxTimers, held : BOOLEAN]
  /\ timers.held => timers.pending > 0
  /\ index \in 0..Sections /\ cookie \in Section
  /\ popup \in [shown : BOOLEAN, hiding : BOOLEAN] /\ pointer \in BOOLEAN /\ wired \in BOOLEAN
  /\ \A i \in 1..Len(loads) : loads[i] \in [value : Text, file : DOMAIN Index]
  /\ list.file \in DOMAIN Index \cup {None} /\ list.visible \cup list.open \subseteq Row
  /\ focus.at \in {"none", "field", "icon", "popup", "row"}

\* What is on display is the complete result of a search that was made on this page:
\* the text of one search and the file of another never meet, although searches start
\* from a timer and from the popup, and their files arrive late and in any order.
Shows(q) ==
  /\ list.visible = IF q.file = None THEN {} ELSE Matches(q.value, Rows(q.file))
  /\ q.file # None => list.file = q.file
  /\ list.none <=> list.visible = {}
ListIsOneSearch == list.shown => \E q \in made : Shows(q)

\* Unless a load fails or is overtaken, the list ends with the search made last.
ListIsLastSearch == (orderly /\ loads = <<>> /\ last # <<>>) => produced = last

\* The keyboard is never left on a row or a child that is not displayed any more, when
\* the list is replaced, closed or folded under it; the browser does not let it go to one.
FocusIsVisible == CanFocus(focus)

\* A box that is not active is empty and remembers no search.
InactiveIsBlank == ~active => field = <<>> /\ last = <<>>

=============================================================================
