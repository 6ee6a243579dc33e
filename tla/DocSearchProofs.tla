--------------------------- MODULE DocSearchProofs ---------------------------
(***************************************************************************)
(* The search box of the documentation, for every index, every set of      *)
(* texts, and every order in which timers fire and index files arrive.     *)
(***************************************************************************)
EXTENDS DocSearch, SequenceTheorems, TLAPS

-----------------------------------------------------------------------------
(* The invariant.                                                              *)

File == DOMAIN Index
Load == [value : Text, file : File]
List == [file : File \cup {None}, visible : SUBSET Nat, open : SUBSET Nat, none : BOOLEAN,
         shown : BOOLEAN]
Timers == [pending : 0..MaxTimers, held : BOOLEAN]
Popup == [shown : BOOLEAN, hiding : BOOLEAN]
Place == {"none", "field", "icon", "popup", "row"}

TypeInv ==
  /\ field \in Text /\ last \in Text /\ active \in BOOLEAN
  /\ timers \in Timers /\ (timers.held => timers.pending > 0)
  /\ index \in 0..Sections /\ cookie \in Section
  /\ popup \in Popup /\ pointer \in BOOLEAN /\ wired \in BOOLEAN
  /\ loads \in Seq(Load)
  /\ list \in List /\ list.visible \cup list.open \subseteq Row

\* The focus is on display, the field has it only while the box is active, and a box
\* that is not active is blank.
FocusInv ==
  /\ focus.at \in Place /\ CanFocus(focus)
  /\ focus.at = "field" => active
  /\ InactiveIsBlank

\* The search that was made last is the last one under way, or it filled the list.
LastInv ==
  orderly /\ last # <<>> =>
    IF loads = <<>> THEN produced = last ELSE loads[Len(loads)].value = last

\* The callback of a load closes over a search that was made.
MadeInv == \A i \in 1..Len(loads) : loads[i] \in made

Inv == TypeInv /\ FocusInv /\ ListIsOneSearch /\ LastInv /\ MadeInv

-----------------------------------------------------------------------------
(* The file of a search.                                                       *)

\* Where there is a file for a search it is one of the index.
LEMMA FileFacts ==
  ASSUME NEW s \in Section, NEW v \in Text
  PROVE  FileFor(s, v) \in File \cup {None}
<1>1. CASE v = <<>>
  <2>1. \E c \in Letter : FirstFile(s, c)
    BY IndexAssumption
  <2>2. FileFor(s, v) \in DOMAIN Index
    BY <1>1, <2>1 DEF FileFor, FirstFile
  <2> QED
    BY <2>2 DEF File
<1>2. CASE v # <<>>
  BY <1>2 DEF FileFor, File
<1> QED
  BY <1>1, <1>2

-----------------------------------------------------------------------------
(* What the parts of a step do.                                                *)

\* handleResults shows the complete result of the search it is called for.
LEMMA ResultFacts ==
  ASSUME NEW v \in Text, NEW f \in File \cup {None}, list \in List, HandleResults(v, f),
         [value |-> v, file |-> f] \in made'
  PROVE  /\ list' \in List /\ (list.visible \cup list.open \subseteq Row)'
         /\ ListIsOneSearch' /\ produced' = v
<1> DEFINE file == IF f = None THEN list.file ELSE f
           visible == IF f = None THEN {} ELSE Matches(v, Rows(f))
<1>1. /\ list' = [file |-> file, visible |-> visible, open |-> {}, none |-> (visible = {}),
                  shown |-> TRUE]
      /\ produced' = v
  BY DEF HandleResults
<1>2. file \in File \cup {None}
  BY DEF List
<1>3. visible \subseteq 1..Len(Rows(file))
  BY DEF Matches
<1>4. Len(Rows(file)) \in Nat
  <2>1. CASE file = None
    BY <2>1 DEF Rows
  <2>2. CASE file # None
    BY <1>2, <2>2, IndexAssumption DEF Rows, File
  <2> QED
    BY <2>1, <2>2
<1>5. visible \in SUBSET Nat
  BY <1>3, <1>4
<1>6. f # None => file = f
  OBVIOUS
<1>7. visible = IF f = None THEN {} ELSE Matches(v, Rows(f))
  OBVIOUS
<1> HIDE DEF file, visible
<1>8. list' \in List
  BY <1>1, <1>2, <1>5 DEF List
<1>9. (list.visible \cup list.open \subseteq Row)'
  BY <1>1, <1>3 DEF Row
<1>10. ListIsOneSearch'
  <2> DEFINE q == [value |-> v, file |-> f]
  <2>1. q \in made' /\ q.value = v /\ q.file = f /\ list'.visible = visible /\ list'.file = file
    BY <1>1
  <2>2. list'.none <=> visible = {}
    BY <1>1
  <2> QED
    BY <1>6, <1>7, <2>1, <2>2 DEF ListIsOneSearch, Shows, Matches, Rows
<1> QED
  BY <1>1, <1>8, <1>9, <1>10

\* A load that ends or fails leaves the others in their order.
LEMMA WithoutFacts ==
  ASSUME NEW S, NEW s \in Seq(S), NEW i \in 1..Len(s)
  PROVE  /\ Without(s, i) \in Seq(S) /\ Len(Without(s, i)) = Len(s) - 1
         /\ i < Len(s) => Without(s, i)[Len(s) - 1] = s[Len(s)]
         /\ \A j \in 1..(Len(s) - 1) : \E k \in 1..Len(s) : Without(s, i)[j] = s[k]
<1> DEFINE a == SubSeq(s, 1, i - 1)
           b == SubSeq(s, i + 1, Len(s))
<1>1. Len(s) \in Nat /\ \A j \in 1..Len(s) : s[j] \in S
  OBVIOUS
<1>2. Len(a) = i - 1
  BY <1>1
<1>3. \A j \in 1..(i - 1) : a[j] = s[j]
  BY <1>1
<1>4. a \in Seq(S)
  BY <1>1
<1>5. Len(b) = Len(s) - i
  BY <1>1
<1>6. \A j \in 1..(Len(s) - i) : b[j] = s[i + j]
  BY <1>1
<1>7. b \in Seq(S)
  BY <1>1
<1> HIDE DEF a, b
<1>8. /\ a \o b \in Seq(S) /\ Len(a \o b) = Len(s) - 1
      /\ \A j \in 1..(Len(s) - i) : (a \o b)[(i - 1) + j] = b[j]
  <2>1. /\ a \o b \in Seq(S) /\ Len(a \o b) = Len(a) + Len(b)
        /\ \A k \in 1..(Len(a) + Len(b)) :
             (a \o b)[k] = IF k <= Len(a) THEN a[k] ELSE b[k - Len(a)]
    BY <1>4, <1>7, ConcatProperties
  <2> DEFINE c == a \o b
  <2> HIDE DEF c
  <2>2. Len(c) = Len(s) - 1
    BY <1>1, <1>2, <1>5, <2>1 DEF c
  <2>3. ASSUME NEW j \in 1..(Len(s) - i) PROVE c[(i - 1) + j] = b[j]
    <3>1. /\ (i - 1) + j \in 1..(Len(a) + Len(b)) /\ ~((i - 1) + j <= Len(a))
          /\ (i - 1) + j - Len(a) = j
      BY <1>1, <1>2, <1>5
    <3> DEFINE k == (i - 1) + j
    <3>2. c[k] = IF k <= Len(a) THEN a[k] ELSE b[k - Len(a)]
      BY <2>1, <3>1 DEF c
    <3>3. c[k] = b[k - Len(a)]
      BY <3>1, <3>2
    <3> QED
      BY <3>1, <3>3
  <2> QED
    BY <2>1, <2>2, <2>3 DEF c
<1>9. i < Len(s) => (a \o b)[Len(s) - 1] = s[Len(s)]
  <2> SUFFICES ASSUME i < Len(s) PROVE (a \o b)[Len(s) - 1] = s[Len(s)]
    OBVIOUS
  <2>1. Len(s) - i \in 1..(Len(s) - i) /\ (i - 1) + (Len(s) - i) = Len(s) - 1 /\ i + (Len(s) - i) = Len(s)
    BY <1>1
  <2>2. (a \o b)[(i - 1) + (Len(s) - i)] = b[Len(s) - i] /\ b[Len(s) - i] = s[i + (Len(s) - i)]
    BY <1>6, <1>8, <2>1
  <2> QED
    BY <2>1, <2>2
<1>10. ASSUME NEW j \in 1..(Len(s) - 1)
       PROVE  \E k \in 1..Len(s) : (a \o b)[j] = s[k]
  <2>1. (a \o b)[j] = IF j <= Len(a) THEN a[j] ELSE b[j - Len(a)]
    <3>1. j \in 1..(Len(a) + Len(b))
      BY <1>1, <1>2, <1>5
    <3>2. \A k \in 1..(Len(a) + Len(b)) :
            (a \o b)[k] = IF k <= Len(a) THEN a[k] ELSE b[k - Len(a)]
      BY <1>4, <1>7, ConcatProperties
    <3> DEFINE c == a \o b
    <3> HIDE DEF c
    <3>3. c[j] = IF j <= Len(a) THEN a[j] ELSE b[j - Len(a)]
      BY <3>1, <3>2 DEF c
    <3> QED
      BY <3>3 DEF c
  <2>2. CASE j <= i - 1
    BY <1>1, <1>2, <1>3, <2>1, <2>2
  <2>3. CASE ~(j <= i - 1)
    <3>1. j - (i - 1) \in 1..(Len(s) - i) /\ i + (j - (i - 1)) \in 1..Len(s)
      BY <1>1, <2>3
    <3>2. (a \o b)[j] = b[j - (i - 1)]
      BY <1>2, <2>1, <2>3
    <3> QED
      BY <1>6, <3>1, <3>2
  <2> QED
    BY <2>2, <2>3
<1> QED
  BY <1>8, <1>9, <1>10 DEF Without, a, b

\* The loads that are left were made, too.
LEMMA WithoutMade ==
  ASSUME loads \in Seq(Load), MadeInv, NEW i \in 1..Len(loads),
         loads' = Without(loads, i), made' = made
  PROVE  MadeInv'
<1>1. Len(loads) \in Nat /\ Len(loads') = Len(loads) - 1
  BY WithoutFacts
<1>2. \A j \in 1..(Len(loads) - 1) : \E k \in 1..Len(loads) : loads'[j] = loads[k]
  BY WithoutFacts
<1>3. \A k \in 1..Len(loads) : loads[k] \in made
  BY DEF MadeInv
<1>4. ASSUME NEW j \in 1..Len(loads') PROVE loads'[j] \in made'
  <2>1. PICK k \in 1..Len(loads) : loads'[j] = loads[k]
    BY <1>1, <1>2
  <2> QED
    BY <1>3, <2>1
<1> QED
  BY <1>4 DEF MadeInv

\* SearchBox.Search either throws, shows a result at once, or starts a load.
LEMMA SearchFacts ==
  ASSUME Inv, NEW s \in 0..Sections, NEW pending \in 0..MaxTimers, Search(s, pending)
  PROVE  /\ timers' \in Timers /\ ~timers'.held
         /\ loads' \in Seq(Load) /\ list' \in List /\ (list.visible \cup list.open \subseteq Row)'
         /\ last' = last \/ last' = field
         /\ ListIsOneSearch' /\ LastInv' /\ MadeInv'
         /\ list' = list \/ AtOnce(s)
<1>0. /\ field \in Text /\ loads \in Seq(Load) /\ list \in List /\ ListIsOneSearch /\ LastInv
      /\ MadeInv
      /\ list.visible \cup list.open \subseteq Row
  BY DEF Inv, TypeInv
<1>1. timers' \in Timers /\ ~timers'.held
  BY DEF Search, Timers
<1>2. CASE s \notin Section
  <2>1. UNCHANGED <<last, loads, list, made, produced, orderly>>
    BY <1>2 DEF Search
  <2> QED
    BY <1>0, <1>1, <2>1 DEF ListIsOneSearch, Shows, LastInv, MadeInv, Row
<1>3. CASE s \in Section /\ AtOnce(s)
  <2>1. /\ last' = field /\ HandleResults(field, None)
        /\ orderly' = (orderly /\ loads = <<>>) /\ loads' = loads
        /\ made' = made \cup {[value |-> field, file |-> None]}
    BY <1>3 DEF Search, AtOnce
  <2>2. /\ list' \in List /\ (list.visible \cup list.open \subseteq Row)'
        /\ ListIsOneSearch' /\ produced' = field
    BY <1>0, <2>1, ResultFacts
  <2>3. LastInv' /\ MadeInv'
    BY <1>0, <2>1, <2>2 DEF LastInv, MadeInv
  <2> QED
    BY <1>0, <1>1, <1>3, <2>1, <2>2, <2>3
<1>4. CASE s \in Section /\ ~AtOnce(s)
  <2> DEFINE q == Request(s)
  <2>1. /\ last' = field /\ loads' = Append(loads, q)
        /\ made' = made \cup {q} /\ UNCHANGED <<list, produced, orderly>>
    BY <1>4 DEF Search, Request
  <2>2. q \in Load /\ q.value = field
    BY <1>0, <1>4, FileFacts DEF AtOnce, Request, Load
  <2> HIDE DEF q
  <2>3. loads' \in Seq(Load) /\ loads' # <<>> /\ loads'[Len(loads')] = q
    BY <1>0, <2>1, <2>2
  <2>4. LastInv'
    BY <2>1, <2>2, <2>3 DEF LastInv
  <2>5. ListIsOneSearch' /\ (list.visible \cup list.open \subseteq Row)'
    BY <1>0, <2>1 DEF ListIsOneSearch, Shows, Row
  <2>6. MadeInv'
    <3>1. ASSUME NEW i \in 1..Len(loads') PROVE loads'[i] = q \/ loads'[i] \in made
      BY <1>0, <2>1, <2>2 DEF MadeInv
    <3> QED
      BY <2>1, <3>1 DEF MadeInv
  <2> QED
    BY <1>0, <1>1, <2>1, <2>3, <2>4, <2>5, <2>6
<1> QED
  BY <1>2, <1>3, <1>4

\* A list that stays, loses rows on display or is taken off the display.
LEMMA ListStays ==
  ASSUME Inv, \/ list' = list
              \/ list' = [list EXCEPT !.shown = FALSE]
              \/ \E o \in SUBSET Row : list' = [list EXCEPT !.open = o]
  PROVE  /\ list' \in List /\ (list.visible \cup list.open \subseteq Row)'
         /\ list'.visible = list.visible /\ list'.file = list.file
         /\ UNCHANGED made => ListIsOneSearch'
<1>0. list \in List /\ list.visible \cup list.open \subseteq Row /\ ListIsOneSearch
  BY DEF Inv, TypeInv
<1>1. list.file \in File \cup {None} /\ Len(Rows(list.file)) \in Nat /\ Row \subseteq Nat
  <2>1. list.file \in File \cup {None}
    BY <1>0 DEF List
  <2>2. CASE list.file = None
    BY <2>1, <2>2 DEF Rows, Row
  <2>3. CASE list.file # None
    BY <2>1, <2>3, IndexAssumption DEF Rows, File, Row
  <2> QED
    BY <2>1, <2>2, <2>3
<1>2. CASE list' = list
  BY <1>0, <1>2 DEF Row, ListIsOneSearch, Shows
<1>3. CASE list' = [list EXCEPT !.shown = FALSE]
  <2>1. /\ list' \in List /\ list'.file = list.file /\ list'.visible = list.visible
        /\ list'.open = list.open /\ ~list'.shown
    BY <1>0, <1>3 DEF List
  <2> QED
    BY <1>0, <2>1 DEF Row, ListIsOneSearch, Shows
<1>4. ASSUME NEW o \in SUBSET Row, list' = [list EXCEPT !.open = o]
      PROVE  /\ list' \in List /\ (list.visible \cup list.open \subseteq Row)'
             /\ list'.visible = list.visible /\ list'.file = list.file
             /\ UNCHANGED made => ListIsOneSearch'
  <2>1. /\ list' \in List /\ list'.file = list.file /\ list'.visible = list.visible
        /\ list'.open = o /\ list'.shown = list.shown /\ list'.none = list.none
    BY <1>0, <1>1, <1>4 DEF List
  <2> QED
    BY <1>0, <2>1 DEF Row, ListIsOneSearch, Shows
<1> QED
  BY <1>2, <1>3, <1>4

LEMMA DeactivatedFacts ==
  ASSUME Inv, NEW shown \in BOOLEAN, Deactivated(shown)
  PROVE  /\ field' \in Text /\ last' \in Text /\ active' \in BOOLEAN
         /\ last' = last \/ last' = <<>>
         /\ InactiveIsBlank'
<1>1. field \in Text /\ last \in Text /\ <<>> \in Text
  BY IndexAssumption DEF Inv, TypeInv
<1>2. CASE shown
  BY <1>1, <1>2 DEF Deactivated, InactiveIsBlank
<1>3. CASE ~shown
  BY <1>1, <1>3 DEF Deactivated, InactiveIsBlank
<1> QED
  BY <1>2, <1>3

LEMMA BlurFacts ==
  ASSUME Inv, Blurred
  PROVE  /\ field' \in Text /\ last' \in Text /\ active' \in BOOLEAN
         /\ last' = last \/ last' = <<>>
         /\ InactiveIsBlank'
<1>1. /\ field \in Text /\ last \in Text /\ active \in BOOLEAN /\ InactiveIsBlank
      /\ list.shown \in BOOLEAN
  BY DEF Inv, TypeInv, FocusInv, List
<1>2. CASE focus.at = "field"
  BY <1>1, <1>2, DeactivatedFacts DEF Blurred
<1>3. CASE focus.at # "field"
  BY <1>1, <1>3 DEF Blurred, InactiveIsBlank
<1> QED
  BY <1>2, <1>3

LEMMA ConstantFacts ==
  /\ <<>> \in Text /\ MaxTimers \in Nat /\ Sections \in Nat \ {0}
  /\ Section \subseteq 0..Sections /\ 0 \in Section
  /\ \A s \in 0..Sections : (s < Sections => s + 1 \in 0..Sections)
                             /\ (s > 0 => s - 1 \in 0..Sections)
BY IndexAssumption DEF Section

\* clearTimeout is called for a timer that is pending.
LEMMA ClearedFacts ==
  ASSUME Inv
  PROVE  Cleared \in 0..MaxTimers
<1>1. timers \in Timers /\ timers.pending \in 0..MaxTimers /\ (timers.held => timers.pending > 0)
  BY DEF Inv, TypeInv, Timers
<1>2. CASE timers.held
  <2>1. timers.pending > 0 /\ Cleared = timers.pending - 1
    BY <1>1, <1>2 DEF Cleared
  <2> QED
    BY <1>1, <2>1, ConstantFacts
<1>3. CASE ~timers.held
  BY <1>1, <1>3 DEF Cleared
<1> QED
  BY <1>2, <1>3

\* The key handler of the field starts a search, drops one, or hides the list.
LEMMA ChangeFacts ==
  ASSUME Inv, NEW f, FieldChanged(f), f = focus \/ CanFocus(f)
  PROVE  /\ timers' \in Timers /\ (timers'.held => timers'.pending > 0)
         /\ last' \in Text /\ (last' = last \/ last' = <<>>)
         /\ list' = list \/ list' = [list EXCEPT !.shown = FALSE]
         /\ CanFocus(focus)' /\ (focus' = f \/ focus'.at = "none")
<1>1. /\ timers \in Timers /\ (timers.held => timers.pending > 0) /\ last \in Text
      /\ <<>> \in Text /\ MaxTimers \in Nat /\ CanFocus(f)
  BY IndexAssumption DEF Inv, TypeInv, FocusInv
<1>2. Cleared \in 0..MaxTimers
  BY ClearedFacts
<1>3. CASE field = last
  <2>1. timers' = [pending |-> Cleared, held |-> FALSE] /\ focus' = f /\ UNCHANGED <<last, list>>
    BY <1>3 DEF FieldChanged
  <2> QED
    BY <1>1, <1>2, <2>1 DEF Timers, CanFocus
<1>4. CASE field # last /\ field # <<>>
  <2>1. /\ Cleared < MaxTimers /\ timers' = [pending |-> Cleared + 1, held |-> TRUE]
        /\ focus' = f /\ UNCHANGED <<last, list>>
    BY <1>4 DEF FieldChanged
  <2> QED
    BY <1>1, <1>2, <2>1 DEF Timers, CanFocus
<1>5. CASE field # last /\ field = <<>>
  <2>1. /\ timers' = [pending |-> Cleared, held |-> FALSE]
        /\ list' = [list EXCEPT !.shown = FALSE] /\ last' = <<>> /\ focus' = Refocused(f)
    BY <1>5 DEF FieldChanged
  <2>2. focus'.at # "row" /\ (focus' = f \/ focus'.at = "none")
    BY <2>1 DEF Refocused, At
  <2> QED
    BY <1>1, <1>2, <2>1, <2>2 DEF Timers, CanFocus
<1> QED
  BY <1>3, <1>4, <1>5

\* OnSelectItem, with or without a search.
LEMMA SelectFacts ==
  ASSUME Inv, NEW s \in 0..Sections, NEW searches \in BOOLEAN, SelectItem(s, searches),
         searches => active
  PROVE  /\ index' = s /\ cookie' \in Section
         /\ timers' \in Timers /\ (timers'.held => timers'.pending > 0)
         /\ loads' \in Seq(Load) /\ list' \in List /\ (list.visible \cup list.open \subseteq Row)'
         /\ last' \in Text /\ (active \/ last' = last)
         /\ ListIsOneSearch' /\ LastInv' /\ MadeInv'
<1>1. /\ index' = s /\ cookie' \in Section
  BY DEF SelectItem, SaveSection, Inv, TypeInv
<1>2. CASE searches
  <2>1. Search(s, timers.pending) /\ timers.pending \in 0..MaxTimers /\ active
    BY <1>2 DEF SelectItem, Inv, TypeInv, Timers
  <2>2. last \in Text /\ field \in Text
    BY DEF Inv, TypeInv
  <2> QED
    BY <1>1, <2>1, <2>2, SearchFacts
<1>3. CASE ~searches
  <2>1. UNCHANGED <<last, timers, loads, list, made, produced, orderly>>
    BY <1>3 DEF SelectItem
  <2> QED
    BY <1>1, <2>1 DEF Inv, TypeInv, ListIsOneSearch, Shows, LastInv, MadeInv, Row
<1> QED
  BY <1>2, <1>3

-----------------------------------------------------------------------------
(* The types.                                                                  *)

\* The parts of TypeInv that a step leaves alone.
LEMMA TypeFrame ==
  ASSUME Inv,
         field' \in Text, last' \in Text, active' \in BOOLEAN, pointer' \in BOOLEAN,
         wired' \in BOOLEAN,
         timers' \in Timers, timers'.held => timers'.pending > 0,
         index' \in 0..Sections, cookie' \in Section, popup' \in Popup, loads' \in Seq(Load),
         list' \in List, (list.visible \cup list.open \subseteq Row)'
  PROVE  TypeInv'
BY DEF TypeInv

LEMMA UserTypes ==
  ASSUME Inv,
         \/ FocusField \/ Leave \/ EditField \/ KeyUp \/ KeyUpDown \/ KeyUpShiftDown
         \/ KeyUpEscape \/ PointerOver \/ PointerOut \/ ClickSection \/ SelectKey \/ SelectEnd
         \/ IconKey \/ NavList \/ ClickRow \/ CloseResults \/ Resize \/ Reload
  PROVE  TypeInv'
<1>0. /\ field \in Text /\ last \in Text /\ active \in BOOLEAN
      /\ timers \in Timers /\ (timers.held => timers.pending > 0)
      /\ index \in 0..Sections /\ cookie \in Section
      /\ popup \in Popup /\ pointer \in BOOLEAN /\ wired \in BOOLEAN
      /\ loads \in Seq(Load) /\ list \in List /\ list.shown \in BOOLEAN
  BY DEF Inv, TypeInv, List
<1>1. Cleared \in 0..MaxTimers
  BY ClearedFacts
<1>2. /\ [shown |-> TRUE, hiding |-> FALSE] \in Popup /\ [shown |-> FALSE, hiding |-> FALSE] \in Popup
      /\ [popup EXCEPT !.hiding = TRUE] \in Popup /\ [popup EXCEPT !.shown = FALSE] \in Popup
      /\ [pending |-> Cleared, held |-> FALSE] \in Timers
      /\ [pending |-> 0, held |-> FALSE] \in Timers
  <2>1. /\ [shown |-> TRUE, hiding |-> FALSE] \in Popup /\ [shown |-> FALSE, hiding |-> FALSE] \in Popup
        /\ [popup EXCEPT !.hiding = TRUE] \in Popup /\ [popup EXCEPT !.shown = FALSE] \in Popup
    BY <1>0 DEF Popup
  <2>2. [pending |-> Cleared, held |-> FALSE] \in Timers
    BY <1>1 DEF Timers
  <2>3. 0 \in 0..MaxTimers
    BY ConstantFacts
  <2>4. [pending |-> 0, held |-> FALSE] \in Timers
    BY <2>3 DEF Timers
  <2> QED
    BY <2>1, <2>2, <2>4
<1>3. CASE FocusField
  BY <1>0, <1>3, ListStays, TypeFrame DEF FocusField
<1>4. CASE Leave
  BY <1>0, <1>4, BlurFacts, ListStays, TypeFrame DEF Leave
<1>5. CASE EditField
  BY <1>0, <1>5, ListStays, TypeFrame DEF EditField
<1>6. CASE KeyUp
  BY <1>0, <1>6, ChangeFacts, ListStays, TypeFrame DEF KeyUp
<1>7. CASE KeyUpDown
  <2> DEFINE first == OnRow(NavNext(1), 0)
             f == IF first.row # 0 /\ CanFocus(first) THEN first ELSE focus
  <2>1. FieldChanged(f) /\ (f = focus \/ CanFocus(f))
    BY <1>7 DEF KeyUpDown
  <2> HIDE DEF f
  <2> QED
    BY <1>0, <1>7, <2>1, ChangeFacts, ListStays, TypeFrame DEF KeyUpDown
<1>8. CASE KeyUpShiftDown
  BY <1>0, <1>2, <1>8, BlurFacts, ListStays, TypeFrame DEF KeyUpShiftDown
<1>9. CASE KeyUpEscape
  BY <1>0, <1>2, <1>9, DeactivatedFacts, ListStays, TypeFrame DEF KeyUpEscape
<1>10. CASE PointerOver
  BY <1>0, <1>2, <1>10, ListStays, TypeFrame DEF PointerOver
<1>11. CASE PointerOut
  BY <1>0, <1>2, <1>11, ListStays, TypeFrame DEF PointerOut
<1>12. CASE ClickSection
  <2>1. CASE focus.at = "field" /\ ~list.shown
    <3>1. Deactivated(FALSE) /\ (\E s \in Section : index' = s /\ SaveSection(s))
          /\ UNCHANGED <<timers, loads, list, made, produced, orderly, popup, pointer, wired>>
      BY <1>12, <2>1 DEF ClickSection
    <3>2. index' \in 0..Sections /\ cookie' \in Section
      BY <1>0, <3>1, ConstantFacts DEF SaveSection
    <3> QED
      BY <1>0, <3>1, <3>2, DeactivatedFacts, ListStays, TypeFrame
  <2>2. CASE ~(focus.at = "field" /\ ~list.shown)
    <3>1. PICK s \in Section : SelectItem(s, field # <<>> /\ active)
      BY <1>12, <2>2 DEF ClickSection
    <3>2. UNCHANGED <<field, active, popup, pointer, wired>>
      BY <1>12, <2>2 DEF ClickSection
    <3> QED
      BY <1>0, <3>1, <3>2, SelectFacts, ConstantFacts, TypeFrame
  <2> QED
    BY <2>1, <2>2
<1>13. CASE SelectKey
  <2>1. PICK s \in 0..Sections : SelectItem(s, field # <<>> /\ active)
    BY <1>0, <1>13, ConstantFacts DEF SelectKey
  <2>2. UNCHANGED <<field, active, popup, pointer, wired>>
    BY <1>13 DEF SelectKey
  <2> QED
    BY <1>0, <2>1, <2>2, SelectFacts, TypeFrame
<1>14. CASE SelectEnd
  <2>1. SelectItem(index, field # <<>> /\ active)
    BY <1>14 DEF SelectEnd
  <2>2. /\ UNCHANGED <<field, pointer, wired>>
        /\ \/ active' = active /\ popup' = popup
           \/ active' = TRUE /\ popup' = [popup EXCEPT !.shown = FALSE]
    BY <1>14 DEF SelectEnd
  <2> QED
    BY <1>0, <1>2, <2>1, <2>2, SelectFacts, TypeFrame
<1>15. CASE IconKey
  BY <1>0, <1>2, <1>15, ListStays, TypeFrame DEF IconKey
<1>16. CASE NavList
  <2>1. /\ UNCHANGED <<field, last, timers, index, cookie, popup, pointer, wired, loads,
                       made, produced, orderly>>
        /\ active' \in BOOLEAN
    BY <1>0, <1>16 DEF NavList, NavUp, NavDown, NavOpen, NavChild, ToField
  <2>2. list' = list \/ \E o \in SUBSET Row : list' = [list EXCEPT !.open = o]
    <3>1. CASE NavOpen
      <4>1. focus.row \in Row /\ list.open \subseteq Row
        BY <3>1 DEF NavOpen, Kids, Inv, TypeInv
      <4> QED
        BY <3>1, <4>1 DEF NavOpen
    <3> QED
      BY <1>16, <3>1 DEF NavList, NavUp, NavDown, NavChild
  <2> QED
    BY <1>0, <2>1, <2>2, ListStays, TypeFrame
<1>17. CASE ClickRow
  <2>1. \E o \in SUBSET Row : list' = [list EXCEPT !.open = o]
    BY <1>17 DEF ClickRow, Inv, TypeInv
  <2> QED
    BY <1>0, <1>17, <2>1, BlurFacts, ListStays, TypeFrame DEF ClickRow
<1>18. CASE CloseResults
  <2>1. active' \in BOOLEAN
    BY <1>18 DEF CloseResults, ToField
  <2> QED
    BY <1>0, <1>18, <2>1, ConstantFacts, ListStays, TypeFrame DEF CloseResults
<1>19. CASE Resize
  BY <1>0, <1>19, DeactivatedFacts, ListStays, TypeFrame DEF Resize
<1>20. CASE Reload
  <2>1. list' \in List /\ (list.visible \cup list.open \subseteq Row)'
    BY <1>20 DEF Reload, BlankList, List, Row
  <2>2. index' \in 0..Sections /\ cookie' \in Section
    BY <1>0, <1>20, ConstantFacts DEF Reload, SaveSection, SavedSection
  <2>3. /\ field' = <<>> /\ last' = <<>> /\ active' = FALSE /\ pointer' = FALSE /\ wired' = TRUE
        /\ timers' = [pending |-> 0, held |-> FALSE] /\ loads' = <<>>
        /\ popup' = [shown |-> FALSE, hiding |-> FALSE]
    BY <1>20 DEF Reload
  <2>4. timers' \in Timers /\ ~timers'.held /\ popup' \in Popup /\ loads' \in Seq(Load)
    BY <1>2, <2>3
  <2> QED
    BY <2>1, <2>2, <2>3, <2>4, ConstantFacts, TypeFrame
<1> QED
  BY <1>3, <1>4, <1>5, <1>6, <1>7, <1>8, <1>9, <1>10, <1>11, <1>12, <1>13, <1>14, <1>15, <1>16,
     <1>17, <1>18, <1>19, <1>20

LEMMA TypeSteps ==
  ASSUME Inv, [Next]_vars
  PROVE  TypeInv'
<1>0. /\ field \in Text /\ last \in Text /\ active \in BOOLEAN
      /\ timers \in Timers /\ (timers.held => timers.pending > 0)
      /\ index \in 0..Sections /\ cookie \in Section
      /\ popup \in Popup /\ pointer \in BOOLEAN /\ wired \in BOOLEAN
      /\ loads \in Seq(Load) /\ list \in List /\ MadeInv
  BY DEF Inv, TypeInv
<1>1. CASE SearchTimer
  <2>1. Search(index, timers.pending - 1) /\ UNCHANGED <<field, active, index, cookie, popup, pointer, wired>>
    BY <1>1 DEF SearchTimer
  <2>2. timers.pending - 1 \in 0..MaxTimers
    BY <1>0, <1>1, ConstantFacts DEF Timers, SearchTimer
  <2> QED
    BY <1>0, <2>1, <2>2, SearchFacts, TypeFrame
<1>2. CASE HideTimer
  <2>1. popup' \in Popup
    BY <1>2 DEF HideTimer, Popup
  <2> QED
    BY <1>0, <1>2, <2>1, ListStays, TypeFrame DEF HideTimer
<1>3. CASE LoadEnds
  <2>1. PICK i \in 1..Len(loads) : /\ HandleResults(loads[i].value, loads[i].file)
                                   /\ loads' = Without(loads, i)
    BY <1>3 DEF LoadEnds
  <2>2. loads[i].value \in Text /\ loads[i].file \in File \cup {None}
    <3>1. loads[i] \in Load
      BY <1>0
    <3> QED
      BY <3>1 DEF Load
  <2>3. list' \in List /\ (list.visible \cup list.open \subseteq Row)'
    <3>1. loads[i] \in Load /\ loads[i] \in made
      BY <1>0 DEF MadeInv
    <3>2. loads[i] = [value |-> loads[i].value, file |-> loads[i].file] /\ made' = made
      BY <1>3, <3>1 DEF LoadEnds, Load
    <3> QED
      BY <1>0, <2>1, <2>2, <3>1, <3>2, ResultFacts
  <2>4. loads' \in Seq(Load)
    BY <1>0, <2>1, WithoutFacts
  <2>5. UNCHANGED <<field, active, last, timers, index, cookie, popup, pointer, wired>>
    BY <1>3 DEF LoadEnds
  <2> QED
    BY <1>0, <2>3, <2>4, <2>5, TypeFrame
<1>4. CASE LoadFails
  <2>1. loads' \in Seq(Load)
    BY <1>0, <1>4, WithoutFacts DEF LoadFails
  <2> QED
    BY <1>0, <1>4, <2>1, ListStays, TypeFrame DEF LoadFails
<1>5. CASE UNCHANGED vars
  BY <1>0, <1>5, ListStays, TypeFrame DEF vars
<1> QED
  BY <1>1, <1>2, <1>3, <1>4, <1>5, UserTypes DEF Next, User

-----------------------------------------------------------------------------
(* The focus and the box.                                                      *)

\* An element outside the list can always have the focus.
LEMMA OutsideFocus ==
  ASSUME focus'.at \in Place \ {"row"}, focus'.at = "field" => active', InactiveIsBlank'
  PROVE  FocusInv'
BY DEF FocusInv, CanFocus

\* The list is as it was, or rows open or close where the focus is not on a child.
LEMMA FocusStays ==
  ASSUME Inv, focus' = focus, list' = list, InactiveIsBlank', active => active'
  PROVE  FocusInv'
BY DEF Inv, FocusInv, CanFocus

LEMMA FocusMoves ==
  ASSUME Inv, NEW f, FocusOn(f), f.at = "row", list' = list, UNCHANGED <<field, last, active>>
  PROVE  FocusInv'
<1>1. FocusInv /\ InactiveIsBlank'
  BY DEF Inv, FocusInv, InactiveIsBlank
<1>2. CASE CanFocus(f)
  <2>1. focus' = f
    BY <1>2 DEF FocusOn
  <2> QED
    BY <1>1, <1>2, <2>1 DEF FocusInv, CanFocus, Place
<1>3. CASE ~CanFocus(f)
  BY <1>1, <1>3, FocusStays DEF FocusOn
<1> QED
  BY <1>2, <1>3

LEMMA ListKeys ==
  ASSUME Inv, NavList
  PROVE  FocusInv'
<1>0. /\ InactiveIsBlank /\ UNCHANGED <<field, last>> /\ focus.at \in Place /\ CanFocus(focus)
      /\ (focus.at = "field" => active)
  BY DEF Inv, FocusInv, NavList
<1>1. \A i, k : OnRow(i, k).at = "row"
  BY DEF OnRow
<1>2. ASSUME ToField PROVE FocusInv'
  <2>1. focus'.at = "field" /\ active'
    BY <1>2 DEF ToField, At
  <2>2. InactiveIsBlank'
    BY <2>1 DEF InactiveIsBlank
  <2> QED
    BY <2>1, <2>2, OutsideFocus DEF Place
<1>3. CASE NavUp
  BY <1>0, <1>1, <1>2, <1>3, FocusMoves DEF NavUp
<1>4. CASE NavDown
  <2>1. CASE focus' = focus
    BY <1>0, <1>4, <2>1, FocusStays DEF NavDown, InactiveIsBlank
  <2> QED
    BY <1>0, <1>1, <1>4, <2>1, FocusMoves DEF NavDown
<1>5. CASE NavOpen
  <2>1. /\ UNCHANGED <<active, focus>> /\ focus.kid = 0
        /\ \E o : list' = [list EXCEPT !.open = o]
    BY <1>5 DEF NavOpen
  <2>2. list'.shown = list.shown /\ list'.visible = list.visible
    BY <2>1 DEF Inv, TypeInv, List
  <2> QED
    BY <1>0, <2>1, <2>2 DEF FocusInv, CanFocus, InactiveIsBlank
<1>6. CASE NavChild
  BY <1>0, <1>1, <1>6, FocusMoves DEF NavChild
<1> QED
  BY <1>3, <1>4, <1>5, <1>6 DEF NavList

LEMMA UserFocus ==
  ASSUME Inv,
         \/ FocusField \/ Leave \/ EditField \/ KeyUp \/ KeyUpDown \/ KeyUpShiftDown
         \/ KeyUpEscape \/ PointerOver \/ PointerOut \/ ClickSection \/ SelectKey \/ SelectEnd
         \/ IconKey \/ NavList \/ ClickRow \/ CloseResults \/ Resize \/ Reload
  PROVE  FocusInv'
<1>0. /\ InactiveIsBlank /\ focus.at \in Place /\ CanFocus(focus)
      /\ (focus.at = "field" => active) /\ \A x : At(x).at = x
  BY DEF Inv, FocusInv, At
<1>1. ASSUME UNCHANGED <<field, last, active>> PROVE InactiveIsBlank'
  BY <1>0, <1>1 DEF InactiveIsBlank
<1>2. ASSUME active' PROVE InactiveIsBlank'
  BY <1>2 DEF InactiveIsBlank
<1>3. CASE FocusField
  BY <1>0, <1>2, <1>3, OutsideFocus DEF FocusField, Place
<1>4. CASE Leave
  BY <1>0, <1>4, BlurFacts, OutsideFocus DEF Leave, Place
<1>5. CASE EditField
  BY <1>0, <1>2, <1>5, FocusStays DEF EditField
<1>6. CASE KeyUp \/ KeyUpDown
  <2> DEFINE first == OnRow(NavNext(1), 0)
             g == IF first.row # 0 /\ CanFocus(first) THEN first ELSE focus
  <2>1. CanFocus(g) /\ g.at \in Place /\ (g = focus \/ CanFocus(g))
    BY <1>0 DEF OnRow, Place
  <2> HIDE DEF g
  <2>2. PICK f : FieldChanged(f) /\ (f = focus \/ CanFocus(f)) /\ f.at \in Place
    BY <1>0, <1>6, <2>1 DEF KeyUp, KeyUpDown, g
  <2>3. CanFocus(focus)' /\ (focus' = f \/ focus'.at = "none") /\ (last' = last \/ last' = <<>>)
    BY <2>2, ChangeFacts
  <2>4. active /\ UNCHANGED <<field, active>>
    BY <1>0, <1>6 DEF KeyUp, KeyUpDown
  <2>5. focus'.at \in Place
    BY <2>2, <2>3 DEF Place
  <2> QED
    BY <1>2, <2>3, <2>4, <2>5 DEF FocusInv
<1>7. CASE KeyUpShiftDown
  BY <1>0, <1>7, BlurFacts, OutsideFocus DEF KeyUpShiftDown, Place
<1>8. CASE KeyUpEscape
  <2>1. InactiveIsBlank'
    BY <1>8, DeactivatedFacts DEF KeyUpEscape
  <2>2. focus'.at = "none"
    BY <1>0, <1>8 DEF KeyUpEscape
  <2> QED
    BY <2>1, <2>2, OutsideFocus DEF Place
<1>9. CASE PointerOver \/ PointerOut
  BY <1>1, <1>9, FocusStays DEF PointerOver, PointerOut
<1>10. CASE ClickSection
  <2>1. focus'.at = "popup"
    BY <1>0, <1>10 DEF ClickSection
  <2>2. InactiveIsBlank'
    <3>1. CASE focus.at = "field" /\ ~list.shown
      BY <1>10, <3>1, DeactivatedFacts DEF ClickSection
    <3>2. CASE ~(focus.at = "field" /\ ~list.shown)
      <4>1. PICK s \in Section : SelectItem(s, field # <<>> /\ active)
        BY <1>10, <3>2 DEF ClickSection
      <4>2. UNCHANGED <<field, active>> /\ (active \/ last' = last)
        BY <1>10, <3>2, <4>1, SelectFacts, ConstantFacts DEF ClickSection
      <4> QED
        BY <1>0, <4>2 DEF InactiveIsBlank
    <3> QED
      BY <3>1, <3>2
  <2> QED
    BY <2>1, <2>2, OutsideFocus DEF Place
<1>11. CASE SelectKey
  <2>1. PICK s \in 0..Sections : SelectItem(s, field # <<>> /\ active)
    BY <1>11, ConstantFacts DEF SelectKey, Inv, TypeInv
  <2>2. UNCHANGED <<field, active, focus>> /\ focus.at = "popup" /\ (active \/ last' = last)
    BY <1>11, <2>1, SelectFacts DEF SelectKey
  <2>3. InactiveIsBlank'
    BY <1>0, <2>2 DEF InactiveIsBlank
  <2> QED
    BY <2>2, <2>3, OutsideFocus DEF Place
<1>12. CASE SelectEnd
  BY <1>0, <1>2, <1>12, OutsideFocus DEF SelectEnd, Place
<1>13. CASE IconKey
  BY <1>0, <1>1, <1>13, OutsideFocus DEF IconKey, Place
<1>14. CASE ClickRow
  <2>1. PICK i \in list.visible :
          /\ Kids(i) > 0 /\ focus' = OnRow(i, 0)
          /\ list' = [list EXCEPT !.open = IF i \in @ THEN @ \ {i} ELSE @ \cup {i}]
    BY <1>14 DEF ClickRow
  <2>2. list.shown /\ list'.shown = list.shown /\ list'.visible = list.visible
    BY <1>14, <2>1 DEF ClickRow, Inv, TypeInv, List
  <2>3. focus'.at = "row" /\ focus'.row = i /\ focus'.kid = 0
    BY <2>1 DEF OnRow
  <2>4. InactiveIsBlank'
    BY <1>14, BlurFacts DEF ClickRow
  <2> QED
    BY <2>2, <2>3, <2>4 DEF FocusInv, CanFocus, Place
<1>15. CASE CloseResults
  <2>1. InactiveIsBlank'
    BY <1>15 DEF CloseResults, InactiveIsBlank
  <2> QED
    BY <1>0, <1>15, <2>1, OutsideFocus DEF CloseResults, ToField, Place
<1>16. CASE Resize
  <2>1. InactiveIsBlank' /\ focus'.at \in {"popup", "none"}
    BY <1>0, <1>16, DeactivatedFacts DEF Resize
  <2> QED
    BY <2>1, OutsideFocus DEF Place
<1>17. CASE Reload
  <2>1. InactiveIsBlank' /\ focus'.at = "none"
    BY <1>0, <1>17 DEF Reload, InactiveIsBlank
  <2> QED
    BY <2>1, OutsideFocus DEF Place
<1> QED
  BY <1>3, <1>4, <1>5, <1>6, <1>7, <1>8, <1>9, <1>10, <1>11, <1>12, <1>13, <1>14, <1>15, <1>16,
     <1>17, ListKeys

LEMMA FocusSteps ==
  ASSUME Inv, [Next]_vars
  PROVE  FocusInv'
<1>0. /\ InactiveIsBlank /\ focus.at \in Place /\ CanFocus(focus)
      /\ (focus.at = "field" => active) /\ \A x : At(x).at = x
  BY DEF Inv, FocusInv, At
<1>1. focus' = Refocused(focus) => focus'.at \in Place \ {"row"} /\ (focus'.at = "field" => active)
  BY <1>0 DEF Refocused, Place
<1>2. CASE SearchTimer
  <2>1. Search(index, timers.pending - 1) /\ UNCHANGED <<field, active>>
    BY <1>2 DEF SearchTimer
  <2>2. timers.pending - 1 \in 0..MaxTimers /\ index \in 0..Sections
    BY <1>2, ConstantFacts DEF Timers, SearchTimer, Inv, TypeInv
  <2>3. (last' = last \/ last' = field) /\ (list' = list \/ AtOnce(index))
    BY <2>1, <2>2, SearchFacts
  <2>4. InactiveIsBlank'
    BY <1>0, <2>1, <2>3 DEF InactiveIsBlank
  <2>5. CASE AtOnce(index)
    BY <1>1, <1>2, <2>1, <2>4, <2>5, OutsideFocus DEF SearchTimer
  <2>6. CASE ~AtOnce(index)
    BY <1>2, <2>1, <2>3, <2>4, <2>6, FocusStays DEF SearchTimer
  <2> QED
    BY <2>5, <2>6
<1>3. CASE HideTimer
  <2>1. UNCHANGED <<field, active, last, list>> /\ focus' = IF focus.at = "popup" THEN At("none") ELSE focus
    BY <1>3 DEF HideTimer
  <2>2. InactiveIsBlank'
    BY <1>0, <2>1 DEF InactiveIsBlank
  <2>3. CASE focus.at = "popup"
    BY <1>0, <2>1, <2>2, <2>3, OutsideFocus DEF Place
  <2>4. CASE focus.at # "popup"
    BY <2>1, <2>2, <2>4, FocusStays
  <2> QED
    BY <2>3, <2>4
<1>4. CASE LoadEnds
  <2>1. UNCHANGED <<field, active, last>> /\ focus' = Refocused(focus)
    BY <1>4 DEF LoadEnds
  <2>2. InactiveIsBlank'
    BY <1>0, <2>1 DEF InactiveIsBlank
  <2> QED
    BY <1>1, <2>1, <2>2, OutsideFocus
<1>5. CASE LoadFails \/ UNCHANGED vars
  <2>1. UNCHANGED <<field, active, last, list, focus>>
    BY <1>5 DEF LoadFails, vars
  <2>2. InactiveIsBlank'
    BY <1>0, <2>1 DEF InactiveIsBlank
  <2> QED
    BY <2>1, <2>2, FocusStays
<1> QED
  BY <1>2, <1>3, <1>4, <1>5, UserFocus DEF Next, User

-----------------------------------------------------------------------------
(* The list and the search it shows.                                           *)

LEMMA SearchStays ==
  ASSUME Inv, UNCHANGED <<loads, made, produced, orderly>>, last' = last \/ last' = <<>>,
         \/ list' = list
         \/ list' = [list EXCEPT !.shown = FALSE]
         \/ \E o \in SUBSET Row : list' = [list EXCEPT !.open = o]
  PROVE  ListIsOneSearch' /\ LastInv' /\ MadeInv'
<1>1. ListIsOneSearch'
  BY ListStays
<1>2. LastInv' /\ MadeInv'
  BY DEF Inv, LastInv, MadeInv
<1> QED
  BY <1>1, <1>2

LEMMA UserSearches ==
  ASSUME Inv,
         \/ FocusField \/ Leave \/ EditField \/ KeyUp \/ KeyUpDown \/ KeyUpShiftDown
         \/ KeyUpEscape \/ PointerOver \/ PointerOut \/ ClickSection \/ SelectKey \/ SelectEnd
         \/ IconKey \/ NavList \/ ClickRow \/ CloseResults \/ Resize \/ Reload
  PROVE  ListIsOneSearch' /\ LastInv' /\ MadeInv'
<1>1. CASE FocusField \/ EditField \/ PointerOver \/ PointerOut \/ IconKey
  BY <1>1, SearchStays DEF FocusField, EditField, PointerOver, PointerOut, IconKey
<1>2. CASE Leave \/ KeyUpShiftDown
  BY <1>2, BlurFacts, SearchStays DEF Leave, KeyUpShiftDown
<1>3. CASE KeyUp \/ KeyUpDown
  <2> DEFINE first == OnRow(NavNext(1), 0)
             g == IF first.row # 0 /\ CanFocus(first) THEN first ELSE focus
  <2>1. g = focus \/ CanFocus(g)
    OBVIOUS
  <2> HIDE DEF g
  <2>2. PICK f : FieldChanged(f) /\ (f = focus \/ CanFocus(f))
    BY <1>3, <2>1 DEF KeyUp, KeyUpDown, g
  <2>3. (last' = last \/ last' = <<>>) /\ (list' = list \/ list' = [list EXCEPT !.shown = FALSE])
    BY <2>2, ChangeFacts
  <2> QED
    BY <1>3, <2>3, SearchStays DEF KeyUp, KeyUpDown
<1>4. CASE KeyUpEscape \/ Resize
  <2>1. Deactivated(FALSE) /\ list' = [list EXCEPT !.shown = FALSE] /\ UNCHANGED <<loads, made, produced, orderly>>
    BY <1>4 DEF KeyUpEscape, Resize
  <2> QED
    BY <2>1, DeactivatedFacts, SearchStays
<1>5. ASSUME NEW s \in 0..Sections, SelectItem(s, field # <<>> /\ active)
      PROVE  ListIsOneSearch' /\ LastInv' /\ MadeInv'
  BY <1>5, SelectFacts
<1>6. CASE ClickSection
  <2>1. CASE focus.at = "field" /\ ~list.shown
    BY <1>6, <2>1, DeactivatedFacts, SearchStays DEF ClickSection
  <2>2. CASE ~(focus.at = "field" /\ ~list.shown)
    BY <1>5, <1>6, <2>2, ConstantFacts DEF ClickSection
  <2> QED
    BY <2>1, <2>2
<1>7. CASE SelectKey
  BY <1>5, <1>7, ConstantFacts DEF SelectKey, Inv, TypeInv
<1>8. CASE SelectEnd
  BY <1>5, <1>8 DEF SelectEnd, Inv, TypeInv
<1>9. CASE NavList
  <2>1. list' = list \/ \E o \in SUBSET Row : list' = [list EXCEPT !.open = o]
    <3>1. CASE NavOpen
      <4>1. focus.row \in Row /\ list.open \subseteq Row
        BY <3>1 DEF NavOpen, Kids, Inv, TypeInv
      <4> QED
        BY <3>1, <4>1 DEF NavOpen
    <3> QED
      BY <1>9, <3>1 DEF NavList, NavUp, NavDown, NavChild
  <2> QED
    BY <1>9, <2>1, SearchStays DEF NavList
<1>10. CASE ClickRow
  <2>1. \E o \in SUBSET Row : list' = [list EXCEPT !.open = o]
    BY <1>10 DEF ClickRow, Inv, TypeInv
  <2> QED
    BY <1>10, <2>1, BlurFacts, SearchStays DEF ClickRow
<1>11. CASE CloseResults
  BY <1>11, SearchStays DEF CloseResults
<1>12. CASE Reload
  BY <1>12 DEF Reload, BlankList, ListIsOneSearch, LastInv, MadeInv
<1> QED
  BY <1>1, <1>2, <1>3, <1>4, <1>6, <1>7, <1>8, <1>9, <1>10, <1>11, <1>12

LEMMA SearchSteps ==
  ASSUME Inv, [Next]_vars
  PROVE  ListIsOneSearch' /\ LastInv' /\ MadeInv'
<1>0. loads \in Seq(Load) /\ list \in List /\ LastInv /\ MadeInv
  BY DEF Inv, TypeInv
<1>1. CASE SearchTimer
  <2>1. Search(index, timers.pending - 1) /\ index \in 0..Sections
    BY <1>1 DEF SearchTimer, Inv, TypeInv
  <2>2. timers.pending - 1 \in 0..MaxTimers
    BY <1>1, ConstantFacts DEF Timers, SearchTimer, Inv, TypeInv
  <2> QED
    BY <2>1, <2>2, SearchFacts
<1>2. CASE HideTimer \/ UNCHANGED vars
  BY <1>2, SearchStays DEF HideTimer, vars
<1>3. CASE LoadEnds
  <2>1. PICK i \in 1..Len(loads) : /\ HandleResults(loads[i].value, loads[i].file)
                                   /\ loads' = Without(loads, i)
                                   /\ orderly' = (orderly /\ i = 1)
    BY <1>3 DEF LoadEnds
  <2>2. loads[i].value \in Text /\ loads[i].file \in File \cup {None}
    <3>1. loads[i] \in Load
      BY <1>0
    <3> QED
      BY <3>1 DEF Load
  <2>3. ListIsOneSearch' /\ produced' = loads[i].value /\ made' = made
    <3>1. loads[i] \in Load /\ loads[i] \in made
      BY <1>0 DEF MadeInv
    <3>2. loads[i] = [value |-> loads[i].value, file |-> loads[i].file] /\ made' = made
      BY <1>3, <3>1 DEF LoadEnds, Load
    <3> QED
      BY <1>0, <2>1, <2>2, <3>1, <3>2, ResultFacts
  <2>4. LastInv'
    <3> SUFFICES ASSUME orderly, i = 1, last # <<>>
                 PROVE  (IF loads = <<>> THEN produced = last
                         ELSE loads[Len(loads)].value = last)'
      BY <1>3, <2>1 DEF LoadEnds, LastInv
    <3>1. last' = last
      BY <1>3 DEF LoadEnds
    <3>2. Len(loads) \in Nat /\ Len(loads) >= 1 /\ loads # <<>> /\ loads[Len(loads)].value = last
      BY <1>0 DEF LastInv
    <3>3. /\ Len(loads') = Len(loads) - 1 /\ loads' \in Seq(Load)
          /\ Len(loads) > 1 => loads'[Len(loads) - 1] = loads[Len(loads)]
      BY <1>0, <2>1, <3>2, WithoutFacts
    <3>4. CASE Len(loads) = 1
      BY <2>3, <3>1, <3>2, <3>3, <3>4
    <3>5. CASE Len(loads) > 1
      <4>1. loads' # <<>> /\ loads'[Len(loads')] = loads[Len(loads)]
        BY <3>2, <3>3, <3>5
      <4> QED
        BY <3>1, <3>2, <4>1
    <3>6. Len(loads) = 1 \/ Len(loads) > 1
      <4>1. \A n \in Nat : n >= 1 => n = 1 \/ n > 1
        OBVIOUS
      <4>2. Len(loads) \in Nat /\ Len(loads) >= 1
        BY <3>2
      <4> QED
        BY <4>1, <4>2
    <3> QED
      BY <3>4, <3>5, <3>6
  <2>5. MadeInv'
    BY <1>0, <2>1, <2>3, WithoutMade
  <2> QED
    BY <2>3, <2>4, <2>5
<1>4. CASE LoadFails
  <2>1. ~orderly' /\ UNCHANGED <<list, made, produced>>
    BY <1>4 DEF LoadFails
  <2>2. MadeInv'
    BY <1>0, <1>4, <2>1, WithoutMade DEF LoadFails
  <2> QED
    BY <2>1, <2>2, ListStays DEF LastInv
<1> QED
  BY <1>1, <1>2, <1>3, <1>4, UserSearches DEF Next, User

-----------------------------------------------------------------------------
(* The theorems.                                                               *)

LEMMA BoxStarts == Init => Inv
<1> SUFFICES ASSUME Init PROVE Inv
  OBVIOUS
<1>1. TypeInv
  <2>1. timers \in Timers /\ ~timers.held
    BY ConstantFacts DEF Init, Timers
  <2>2. popup \in Popup
    BY DEF Init, Popup
  <2>3. list \in List /\ list.visible \cup list.open \subseteq Row
    BY DEF Init, BlankList, List, Row
  <2>4. field \in Text /\ last \in Text /\ active \in BOOLEAN /\ pointer \in BOOLEAN /\ wired \in BOOLEAN
    BY ConstantFacts DEF Init
  <2>5. index \in 0..Sections /\ cookie \in Section
    BY ConstantFacts DEF Init
  <2>6. loads \in Seq(Load)
    BY DEF Init
  <2> QED
    BY <2>1, <2>2, <2>3, <2>4, <2>5, <2>6 DEF TypeInv
<1>2. FocusInv
  BY DEF Init, FocusInv, CanFocus, At, Place, InactiveIsBlank
<1>3. ListIsOneSearch /\ LastInv /\ MadeInv
  BY DEF Init, BlankList, ListIsOneSearch, LastInv, MadeInv
<1> QED
  BY <1>1, <1>2, <1>3 DEF Inv

LEMMA BoxInv == Spec => []Inv
<1>1. Inv /\ [Next]_vars => Inv'
  BY TypeSteps, FocusSteps, SearchSteps DEF Inv
<1> QED
  BY <1>1, BoxStarts, PTL DEF Spec

\* Every variable keeps its type; keyTimeout holds a timer only while one is pending,
\* and the rows on display are rows of the file that is loaded.
THEOREM BoxTypeCorrect == Spec => []TypeOK
<1>1. Inv => TypeOK
  <2> SUFFICES ASSUME Inv PROVE TypeOK
    OBVIOUS
  <2>1. \A i \in 1..Len(loads) : loads[i] \in [value : Text, file : DOMAIN Index]
    <3>1. loads \in Seq(Load)
      BY DEF Inv, TypeInv
    <3>2. \A i \in 1..Len(loads) : loads[i] \in Load
      BY <3>1
    <3> QED
      BY <3>2 DEF Load, File
  <2>2. list.file \in DOMAIN Index \cup {None}
    BY DEF Inv, TypeInv, List, File
  <2>3. timers \in [pending : 0..MaxTimers, held : BOOLEAN] /\ (timers.held => timers.pending > 0)
    <3>1. timers \in Timers /\ (timers.held => timers.pending > 0)
      BY DEF Inv, TypeInv
    <3>2. Timers = [pending : 0..MaxTimers, held : BOOLEAN]
      BY DEF Timers
    <3> QED
      BY <3>1, <3>2
  <2>4. popup \in [shown : BOOLEAN, hiding : BOOLEAN] /\ pointer \in BOOLEAN /\ wired \in BOOLEAN
    BY DEF Inv, TypeInv, Popup
  <2>5. field \in Text /\ last \in Text /\ active \in BOOLEAN /\ index \in 0..Sections /\ cookie \in Section
    BY DEF Inv, TypeInv
  <2>6. /\ list.visible \cup list.open \subseteq Row
        /\ focus.at \in {"none", "field", "icon", "popup", "row"}
    BY DEF Inv, TypeInv, FocusInv, Place
  <2> QED
    BY <2>1, <2>2, <2>3, <2>4, <2>5, <2>6 DEF TypeOK
<1> QED
  BY <1>1, BoxInv, PTL

\* However timers, selections of a section and loads overlap, what handleResults has
\* put on display is the complete result of a search that Search was asked for.
THEOREM ListIsOneSearchAlways == Spec => []ListIsOneSearch
<1>1. Inv => ListIsOneSearch
  BY DEF Inv
<1> QED
  BY <1>1, BoxInv, PTL

\* When index files arrive in the order in which Search asked for them, the list ends
\* with the search for lastSearchValue.
THEOREM ListIsLastSearchAlways == Spec => []ListIsLastSearch
<1>1. Inv => ListIsLastSearch
  BY DEF Inv, LastInv, ListIsLastSearch
<1> QED
  BY <1>1, BoxInv, PTL

\* Nav, NavChild, Toggle and whatever replaces the rows never leave the keyboard on an
\* element that is not on display.
THEOREM FocusIsVisibleAlways == Spec => []FocusIsVisible
<1>1. Inv => FocusIsVisible
  BY DEF Inv, FocusInv, FocusIsVisible
<1> QED
  BY <1>1, BoxInv, PTL

\* Activate(FALSE) blanks the box, and neither a late timer nor a selection gives a box
\* that is not active a text or a search to remember.
THEOREM InactiveIsBlankAlways == Spec => []InactiveIsBlank
<1>1. Inv => InactiveIsBlank
  BY DEF Inv, FocusInv
<1> QED
  BY <1>1, BoxInv, PTL

=============================================================================
