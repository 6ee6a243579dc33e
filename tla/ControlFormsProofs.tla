-------------------------- MODULE ControlFormsProofs --------------------------
(***************************************************************************)
(* The forms of the dashboard and the routes behind them, for every number *)
(* of requests under way, every set of parameters and every interleaving   *)
(* of edits, handlers, answers and polls.                                  *)
(***************************************************************************)
EXTENDS ControlForms, TLAPS

-----------------------------------------------------------------------------
(* The invariant.                                                              *)

\* The page: what is on display belongs to what is chosen.
PageInv ==
  /\ tab \in Tab
  /\ write \in [simulate : BOOLEAN, type : ErrorType \cup {"none"}, addr : Typed,
                functionCode : Typed, exceptionCode : Typed, delayMs : Typed]
  /\ wshown = ShownFor(write)
  /\ flag \in [type : ErrorType, sel : {"listed", "CUSTOM"}, custom : Typed, delayMs : Typed]
  /\ fshown \subseteq {"exceptionCode", "custom", "delayMs"}
  /\ flag.type = "EXCEPTION" => "exceptionCode" \in fshown
  /\ flag.type = "DELAY" => "delayMs" \in fshown
  /\ flag.sel = "CUSTOM" => "custom" \in fshown
  /\ cfg \in [field : [Key -> Value \cup {Empty}], regs : SUBSET Reg]

\* A request: it has all its fields, and what it carries fits what was on display
\* and what the handler has made of it so far.
Fields == {"pc", "form", "body", "want", "todo", "left", "out"}
WriteKeys == Optional \cup {"errorType"}
Form == {"write", "config", "load", "flag", "fota"}
IsPatch(p) ==
  /\ p.regs \subseteq Reg /\ DOMAIN p.params \subseteq 1..Len(Keys)
  /\ \A i \in DOMAIN p.params : p.params[i] \in Value

Fits(x) ==
  /\ x.form \in Form \cup {"none"} /\ (x.form = "none" <=> x.pc = "idle")
  /\ x.form = "write" => Payload(x.body) = x.want /\ x.want \subseteq WriteKeys
  /\ x.form = "flag" => x.body.from \subseteq x.want
  /\ x.form = "config" => IsPatch(x.body) /\ x.left \subseteq Order(x.body)
  /\ x.form = "load" /\ x.pc = "done" => x.out \in Config
  /\ x.form = "config" /\ x.pc = "publish" => x.out \in Config

Shape == reqs = [r \in Req |-> reqs[r]] /\ \A r \in Req : DOMAIN reqs[r] = Fields
ReqsInv == Shape /\ \A r \in Req : Fits(reqs[r])

\* Log buckets are numbered without a gap, from 1 on, and so is every copy of one.
Event == [n : Nat, sent : Config \cup {Empty}]
Numbered(s) ==
  /\ \A i \in 1..Len(s) : s[i].n # 0
  /\ \A i \in 1..(Len(s) - 1) : s[i + 1].n = s[i].n + 1
InOrder(s) ==
  \A i \in 2..Len(s) : s[i - 1].n = 0 \/ (s[i].n # 0 /\ s[i - 1].n = s[i].n + 1)

LogInv ==
  /\ logs \in [Bucket -> Seq(Event)] /\ fetch \in [Bucket -> SUBSET Seq(Event)]
  /\ panel \in [Panel -> Seq(Event)]
  /\ \A b \in Bucket : Len(logs[b]) <= MaxEvents /\ Numbered(logs[b])
  /\ \A b \in Bucket : \A s \in fetch[b] : Numbered(s)
  /\ \A p \in Panel : InOrder(panel[p])

\* What was published.
Published ==
  [form : {"write", "config"}, load : Config \cup SUBSET WriteKeys, want : SUBSET WriteKeys]
WriteShown(m) == m.form = "write" => m.load = m.want

\* While no two configuration requests have overlapped there is one at most, and
\* what was published and logged last differs from current_config only while it is
\* between its merge and its publish or push_log.
Active(x) == x.form = "config" /\ x.pc \notin {"idle", "done"}
Merging(x) == x.form = "config" /\ x.pc \in {"merge", "publish"}
Unlogged(x) == x.form = "config" /\ x.pc \in {"merge", "publish", "log"}

TopicSays(c) ==
  \A i \in 1..Len(topic) :
    (topic[i].form = "config" /\ \A j \in (i + 1)..Len(topic) : topic[j].form # "config")
      => topic[i].load = c
LogSays(s, c) ==
  \A i \in 1..Len(s) :
    (s[i].sent # Empty /\ \A j \in (i + 1)..Len(s) : s[j].sent = Empty) => s[i].sent = c

AgreeInv ==
  alone =>
    /\ \A r, q \in Req : Active(reqs[r]) /\ Active(reqs[q]) => r = q
    /\ (\A r \in Req : ~Merging(reqs[r])) => TopicSays(config)
    /\ (\A r \in Req : ~Unlogged(reqs[r])) => LogSays(logs["config"], config)
    /\ \A r \in Req : reqs[r].form = "config" /\ reqs[r].pc = "publish" => reqs[r].out = config

ServerInv ==
  /\ config \in Config /\ alone \in BOOLEAN /\ topic \in Seq(Published)
  /\ \A i \in 1..Len(topic) : WriteShown(topic[i])

Inv == PageInv /\ ReqsInv /\ LogInv /\ ServerInv /\ AgreeInv

-----------------------------------------------------------------------------
(* How a step changes a request.                                               *)

LEMMA ShapeFacts ==
  ASSUME Shape, NEW r \in Req, NEW x, DOMAIN x = Fields, reqs' = [reqs EXCEPT ![r] = x]
  PROVE  Shape' /\ reqs'[r] = x /\ \A q \in Req \ {r} : reqs'[q] = reqs[q]
<1>1. DOMAIN reqs = Req
  BY DEF Shape
<1>2. reqs'[r] = x /\ \A q \in Req \ {r} : reqs'[q] = reqs[q]
  BY <1>1
<1>3. reqs' = [q \in Req |-> reqs'[q]]
  BY <1>1
<1> QED
  BY <1>2, <1>3 DEF Shape

\* The fields of x and y other than these are alike.
Same(x, y, changed) == \A f \in Fields \ changed : x[f] = y[f]

LEMMA GoFacts ==
  ASSUME Shape, NEW r \in Req, NEW pc, NEW todo, Go(r, pc, todo)
  PROVE  /\ Shape' /\ \A q \in Req \ {r} : reqs'[q] = reqs[q]
         /\ reqs'[r].pc = pc /\ Same(reqs'[r], reqs[r], {"pc", "todo"})
<1> DEFINE x == [reqs[r] EXCEPT !.pc = pc, !.todo = todo]
<1>1. DOMAIN x = Fields /\ x.pc = pc /\ Same(x, reqs[r], {"pc", "todo"})
  BY DEF Shape, Fields, Same
<1>2. reqs' = [reqs EXCEPT ![r] = x]
  BY DEF Go, Shape
<1> HIDE DEF x
<1> QED
  BY <1>1, <1>2, ShapeFacts

LEMMA FinishedFacts ==
  ASSUME Shape, NEW r \in Req, NEW out, Finished(r, out)
  PROVE  /\ Shape' /\ \A q \in Req \ {r} : reqs'[q] = reqs[q]
         /\ reqs'[r].pc = "done" /\ reqs'[r].out = out /\ Same(reqs'[r], reqs[r], {"pc", "out"})
<1> DEFINE x == [reqs[r] EXCEPT !.pc = "done", !.out = out]
<1>1. DOMAIN x = Fields /\ x.pc = "done" /\ x.out = out /\ Same(x, reqs[r], {"pc", "out"})
  BY DEF Shape, Fields, Same
<1>2. reqs' = [reqs EXCEPT ![r] = x]
  BY DEF Finished, Shape
<1> HIDE DEF x
<1> QED
  BY <1>1, <1>2, ShapeFacts

LEMMA PostedFacts ==
  ASSUME Shape, NEW r \in Req, NEW form, NEW body, NEW want, Posted(r, form, body, want)
  PROVE  /\ Shape' /\ \A q \in Req \ {r} : reqs'[q] = reqs[q]
         /\ reqs'[r].pc = "sent" /\ reqs'[r].form = form /\ reqs'[r].body = body
         /\ reqs'[r].want = want /\ reqs'[r].left = {}
<1> DEFINE x == [Idle EXCEPT !.pc = "sent", !.form = form, !.body = body, !.want = want]
<1>1. /\ DOMAIN x = Fields /\ x.pc = "sent" /\ x.form = form /\ x.body = body /\ x.want = want
      /\ x.left = {}
  BY DEF Idle, Fields
<1>2. reqs' = [reqs EXCEPT ![r] = x]
  BY DEF Posted
<1> HIDE DEF x
<1> QED
  BY <1>1, <1>2, ShapeFacts

LEMMA RestsFacts ==
  ASSUME Shape, NEW r \in Req, reqs' = [reqs EXCEPT ![r] = Idle]
  PROVE  /\ Shape' /\ \A q \in Req \ {r} : reqs'[q] = reqs[q]
         /\ reqs'[r].pc = "idle" /\ reqs'[r].form = "none"
<1>1. DOMAIN Idle = Fields /\ Idle.pc = "idle" /\ Idle.form = "none"
  BY DEF Idle, Fields
<1> QED
  BY <1>1, ShapeFacts

\* The steps of api_config that are not a move to another place in it.
LEMMA MergeFacts ==
  ASSUME Shape, NEW r \in Req, NEW left,
         reqs' = [reqs EXCEPT ![r].pc = "merge", ![r].left = left]
  PROVE  /\ Shape' /\ \A q \in Req \ {r} : reqs'[q] = reqs[q]
         /\ reqs'[r].pc = "merge" /\ reqs'[r].left = left
         /\ Same(reqs'[r], reqs[r], {"pc", "left"})
<1> DEFINE x == [reqs[r] EXCEPT !.pc = "merge", !.left = left]
<1>1. DOMAIN x = Fields /\ x.pc = "merge" /\ x.left = left /\ Same(x, reqs[r], {"pc", "left"})
  BY DEF Shape, Fields, Same
<1>2. reqs' = [reqs EXCEPT ![r] = x]
  BY DEF Shape
<1> HIDE DEF x
<1> QED
  BY <1>1, <1>2, ShapeFacts

LEMMA CopyFacts ==
  ASSUME Shape, NEW r \in Req, reqs' = [reqs EXCEPT ![r].pc = "publish", ![r].out = Copy]
  PROVE  /\ Shape' /\ \A q \in Req \ {r} : reqs'[q] = reqs[q]
         /\ reqs'[r].pc = "publish" /\ reqs'[r].out = Copy
         /\ Same(reqs'[r], reqs[r], {"pc", "out"})
<1> DEFINE x == [reqs[r] EXCEPT !.pc = "publish", !.out = Copy]
<1>1. DOMAIN x = Fields /\ x.pc = "publish" /\ x.out = Copy /\ Same(x, reqs[r], {"pc", "out"})
  BY DEF Shape, Fields, Same
<1>2. reqs' = [reqs EXCEPT ![r] = x]
  BY DEF Shape
<1> HIDE DEF x
<1> QED
  BY <1>1, <1>2, ShapeFacts

-----------------------------------------------------------------------------
(* The page.                                                                   *)

\* An unchecked field of a form gets what is typed into it.
LEMMA PageEdits ==
  ASSUME PageInv, EditWrite \/ EditFlag \/ EditConfig \/ ClearFlag, tab' = tab
  PROVE  PageInv'
<1>1. CASE EditWrite
  <2> DEFINE Write == [simulate : BOOLEAN, type : ErrorType \cup {"none"}, addr : Typed,
                       functionCode : Typed, exceptionCode : Typed, delayMs : Typed]
  <2>1. write \in Write /\ UNCHANGED <<flag, fshown, cfg>> /\ wshown' = ShownFor(write')
    BY <1>1 DEF PageInv, EditWrite
  <2>2. CASE \E b \in BOOLEAN : write' = [write EXCEPT !.simulate = b]
    BY <1>1, <2>1, <2>2 DEF PageInv
  <2>3. CASE \E t \in ErrorType \cup {"none"} : write' = [write EXCEPT !.type = t]
    BY <1>1, <2>1, <2>3 DEF PageInv
  <2>4. CASE \E f \in {"addr"} \cup (Optional \cap wshown), v \in Typed : write' = [write EXCEPT ![f] = v]
    <3>1. PICK f \in {"addr", "functionCode", "exceptionCode", "delayMs"}, v \in Typed :
            write' = [write EXCEPT ![f] = v]
      BY <2>4 DEF Optional
    <3>2. write' \in Write
      <4>1. CASE f = "addr"
        BY <2>1, <3>1, <4>1
      <4>2. CASE f = "functionCode"
        BY <2>1, <3>1, <4>2
      <4>3. CASE f = "exceptionCode"
        BY <2>1, <3>1, <4>3
      <4>4. CASE f = "delayMs"
        BY <2>1, <3>1, <4>4
      <4> QED
        BY <3>1, <4>1, <4>2, <4>3, <4>4
    <3> QED
      BY <2>1, <3>2 DEF PageInv
  <2> QED
    BY <1>1, <2>2, <2>3, <2>4 DEF EditWrite
<1>2. CASE EditFlag
  <2> DEFINE Flag == [type : ErrorType, sel : {"listed", "CUSTOM"}, custom : Typed, delayMs : Typed]
  <2>1. flag \in Flag /\ UNCHANGED <<write, wshown, cfg>>
    BY <1>2 DEF PageInv, EditFlag
  <2>2. CASE \E t \in ErrorType : flag' = [flag EXCEPT !.type = t] /\ fshown' = FlagWraps(t, fshown)
    <3>1. PICK t \in ErrorType : flag' = [flag EXCEPT !.type = t] /\ fshown' = FlagWraps(t, fshown)
      BY <2>2
    <3>2. flag' \in Flag /\ flag'.type = t /\ flag'.sel = flag.sel
      BY <2>1, <3>1
    <3> QED
      BY <2>1, <3>1, <3>2 DEF PageInv, FlagWraps
  <2>3. CASE "exceptionCode" \in fshown /\ flag' = [flag EXCEPT !.sel = "CUSTOM"] /\ fshown' = fshown \cup {"custom"}
    <3>1. flag' \in Flag /\ flag'.type = flag.type /\ flag'.sel = "CUSTOM"
      BY <2>1, <2>3
    <3> QED
      BY <2>1, <2>3, <3>1 DEF PageInv
  <2>4. CASE flag' = [flag EXCEPT !.sel = "listed", !.custom = "empty"] /\ fshown' = fshown \ {"custom"}
    <3>1. flag' \in Flag /\ flag'.type = flag.type /\ flag'.sel = "listed"
      BY <2>1, <2>4 DEF Typed
    <3> QED
      BY <2>1, <2>4, <3>1 DEF PageInv
  <2>5. CASE \E f \in {"custom", "delayMs"} \cap fshown, v \in Typed :
               flag' = [flag EXCEPT ![f] = v] /\ fshown' = fshown
    <3>1. PICK f \in {"custom", "delayMs"}, v \in Typed : flag' = [flag EXCEPT ![f] = v] /\ fshown' = fshown
      BY <2>5
    <3>2. flag' \in Flag /\ flag'.type = flag.type /\ flag'.sel = flag.sel
      <4>1. CASE f = "custom"
        BY <2>1, <3>1, <4>1
      <4>2. CASE f = "delayMs"
        BY <2>1, <3>1, <4>2
      <4> QED
        BY <3>1, <4>1, <4>2
    <3> QED
      BY <2>1, <3>1, <3>2 DEF PageInv
  <2> QED
    BY <1>2, <2>2, <2>3, <2>4, <2>5 DEF EditFlag
<1>3. CASE EditConfig
  <2>1. UNCHANGED <<write, wshown, flag, fshown>> /\ cfg \in [field : [Key -> Value \cup {Empty}], regs : SUBSET Reg]
    BY <1>3 DEF EditConfig, PageInv
  <2>2. cfg' \in [field : [Key -> Value \cup {Empty}], regs : SUBSET Reg]
    <3>1. CASE \E k \in Key, v \in Value \cup {Empty} : cfg' = [cfg EXCEPT !.field[k] = v]
      BY <2>1, <3>1
    <3>2. CASE \E i \in Reg : cfg' = [cfg EXCEPT !.regs = IF i \in @ THEN @ \ {i} ELSE @ \cup {i}]
      BY <2>1, <3>2
    <3> QED
      BY <1>3, <3>1, <3>2 DEF EditConfig
  <2> QED
    BY <2>1, <2>2 DEF PageInv
<1>4. CASE ClearFlag
  <2>1. /\ UNCHANGED <<write, wshown, cfg>> /\ flag' = BlankFlag
        /\ fshown' = FlagWraps("EXCEPTION", fshown)
    BY <1>4 DEF ClearFlag, BlankFlag
  <2> QED
    BY <2>1 DEF PageInv, BlankFlag, FlagWraps, ErrorType, Typed
<1> QED
  BY <1>1, <1>2, <1>3, <1>4

\* Loading puts current_config, or what was current_config, into the fields.
LEMMA PageLoads ==
  ASSUME PageInv, NEW c \in Config, cfg' = Loaded(c),
         UNCHANGED <<tab, write, wshown, flag, fshown>>
  PROVE  PageInv'
<1>1. cfg' \in [field : [Key -> Value \cup {Empty}], regs : SUBSET Reg]
  BY DEF PageInv, Loaded, Config
<1> QED
  BY <1>1 DEF PageInv

LEMMA PageStays ==
  ASSUME PageInv, UNCHANGED page
  PROVE  PageInv'
BY DEF PageInv, page

LEMMA PageSteps ==
  ASSUME Inv, [Next]_vars
  PROVE  PageInv'
<1> USE DEF Inv
<1>1. CASE Switch
  BY <1>1 DEF Switch, PageInv, Tab
<1>2. CASE Edit
  BY <1>2, PageEdits DEF Edit
<1>3. CASE \E r \in Req : Answered(r)
  <2>1. PICK r \in Req : Answered(r)
    BY <1>3
  <2>2. CASE reqs[r].form = "load"
    <3>1. reqs[r].out \in Config
      BY <2>1, <2>2 DEF ReqsInv, Fits, Answered
    <3> QED
      BY <2>1, <2>2, <3>1, PageLoads DEF Answered
  <2>3. CASE reqs[r].form # "load"
    BY <2>1, <2>3, PageStays DEF Answered, page
  <2> QED
    BY <2>2, <2>3
<1>4. ASSUME NEW r \in Req, Submit(r) \/ Route(r) \/ Lost(r) PROVE PageInv'
  BY <1>4, PageStays DEF Submit, Route, Lost
<1>5. ASSUME NEW b \in Watched, PollLogs(b) \/ ShowLogs(b) PROVE PageInv'
  BY <1>5, PageStays DEF PollLogs, ShowLogs
<1>6. CASE Report
  BY <1>6, PageStays DEF Report
<1>7. CASE UNCHANGED vars
  BY <1>7, PageStays DEF vars, page
<1> QED
  BY <1>1, <1>2, <1>3, <1>4, <1>5, <1>6, <1>7 DEF Next

-----------------------------------------------------------------------------
(* The requests.                                                               *)

LEMMA OthersFit ==
  ASSUME ReqsInv, NEW r \in Req, Shape', \A q \in Req \ {r} : reqs'[q] = reqs[q],
         Fits(reqs'[r])
  PROVE  ReqsInv'
<1>1. ASSUME NEW q \in Req PROVE Fits(reqs'[q])
  <2>1. CASE q = r
    BY <2>1
  <2>2. CASE q # r
    <3>1. reqs'[q] = reqs[q] /\ Fits(reqs[q])
      BY <2>2 DEF ReqsInv
    <3> QED
      BY <3>1
  <2> QED
    BY <2>1, <2>2
<1> QED
  BY <1>1 DEF ReqsInv

LEMMA ReqsStay ==
  ASSUME ReqsInv, UNCHANGED reqs
  PROVE  ReqsInv'
BY DEF ReqsInv, Shape, Fits

\* A body has exactly the parameters on display, or some of them.
LEMMA BodyFacts ==
  ASSUME PageInv
  PROVE  /\ WriteChecked => Payload(WriteBody) = wshown
         /\ wshown \subseteq WriteKeys
         /\ FlagBody.from \subseteq fshown
         /\ IsPatch(Patch)
<1>1. WriteChecked => Payload(WriteBody) = wshown
  BY DEF PageInv, WriteChecked, WriteBody, Payload, ShownFor, ErrorType
<1>2. wshown \subseteq WriteKeys
  BY DEF PageInv, ShownFor, WriteKeys, Optional
<1>3. FlagBody.from \subseteq fshown
  BY DEF PageInv, FlagBody
<1>4. IsPatch(Patch)
  <2>1. cfg.regs \subseteq Reg /\ \A k \in Key : cfg.field[k] \in Value \cup {Empty}
    BY DEF PageInv
  <2>2. \A i \in Filled : i \in 1..Len(Keys) /\ Keys[i] \in Key /\ cfg.field[Keys[i]] # Empty
    BY DEF Filled, Key
  <2>3. Patch.regs = cfg.regs /\ Patch.params = [i \in Filled |-> cfg.field[Keys[i]]]
    BY DEF Patch
  <2> QED
    BY <2>1, <2>2, <2>3 DEF IsPatch
<1> QED
  BY <1>1, <1>2, <1>3, <1>4

LEMMA SubmitFits ==
  ASSUME Inv, NEW r \in Req, Submit(r)
  PROVE  ReqsInv'
<1>0. Shape
  BY DEF Inv, ReqsInv
<1>1. CASE UNCHANGED reqs
  BY <1>1, ReqsStay DEF Inv
<1>2. ASSUME NEW form \in {"write", "config", "load", "flag", "fota"}, NEW body, NEW want,
             Posted(r, form, body, want),
             form = "write" => Payload(body) = want /\ want \subseteq WriteKeys,
             form = "flag" => body.from \subseteq want,
             form = "config" => IsPatch(body)
      PROVE  ReqsInv'
  <2>1. /\ Shape' /\ \A q \in Req \ {r} : reqs'[q] = reqs[q]
        /\ reqs'[r].pc = "sent" /\ reqs'[r].form = form /\ reqs'[r].body = body
        /\ reqs'[r].want = want /\ reqs'[r].left = {}
    BY <1>0, <1>2, PostedFacts
  <2>2. Fits(reqs'[r])
    BY <1>2, <2>1 DEF Fits, Form
  <2> QED
    BY <2>1, <2>2, OthersFit DEF Inv
<1>3. CASE SubmitWrite(r)
  <2>1. CASE WriteChecked
    <3>1. Posted(r, "write", WriteBody, wshown) /\ Payload(WriteBody) = wshown
          /\ wshown \subseteq WriteKeys
      BY <1>3, <2>1, BodyFacts DEF SubmitWrite, Inv
    <3> QED
      BY <1>2, <3>1
  <2> QED
    BY <1>1, <1>3, <2>1 DEF SubmitWrite
<1>4. CASE SubmitConfig(r)
  BY <1>2, <1>4, BodyFacts DEF SubmitConfig, Inv
<1>5. CASE SubmitLoad(r)
  BY <1>2, <1>5 DEF SubmitLoad
<1>6. CASE SubmitFlag(r)
  BY <1>2, <1>6, BodyFacts DEF SubmitFlag, Inv
<1>7. CASE SubmitFota(r)
  BY <1>1, <1>2, <1>7 DEF SubmitFota
<1> QED
  BY <1>3, <1>4, <1>5, <1>6, <1>7 DEF Submit

LEMMA LogNextFits ==
  ASSUME ReqsInv, NEW r \in Req, NEW b, LogNext(r, b), reqs[r].form \in {"write", "flag", "fota"}
  PROVE  ReqsInv' /\ reqs'[r].form = reqs[r].form /\ \A q \in Req \ {r} : reqs'[q] = reqs[q]
<1>1. Shape /\ Fits(reqs[r]) /\ reqs[r].pc = "log"
  BY DEF ReqsInv, LogNext
<1>2. CASE Finished(r, "ok")
  <2>1. /\ Shape' /\ \A q \in Req \ {r} : reqs'[q] = reqs[q]
        /\ reqs'[r].pc = "done" /\ Same(reqs'[r], reqs[r], {"pc", "out"})
    BY <1>1, <1>2, FinishedFacts
  <2>2. Fits(reqs'[r]) /\ reqs'[r].form = reqs[r].form
    BY <1>1, <2>1 DEF Fits, Same, Fields
  <2> QED
    BY <2>1, <2>2, OthersFit
<1>3. CASE Go(r, "log", Tail(reqs[r].todo))
  <2>1. /\ Shape' /\ \A q \in Req \ {r} : reqs'[q] = reqs[q]
        /\ reqs'[r].pc = "log" /\ Same(reqs'[r], reqs[r], {"pc", "todo"})
    BY <1>1, <1>3, GoFacts
  <2>2. Fits(reqs'[r]) /\ reqs'[r].form = reqs[r].form
    BY <1>1, <2>1 DEF Fits, Same, Fields
  <2> QED
    BY <2>1, <2>2, OthersFit
<1> QED
  BY <1>2, <1>3 DEF LogNext

\* A handler outside the configuration leaves its request's form alone.
LEMMA PlainRouteFits ==
  ASSUME Inv, NEW r \in Req, WriteRoute(r) \/ LoadRoute(r) \/ FlagRoute(r) \/ FotaRoute(r)
  PROVE  /\ ReqsInv' /\ reqs[r].form # "config" /\ reqs'[r].form # "config"
         /\ \A q \in Req \ {r} : reqs'[q] = reqs[q]
<1>0. ReqsInv /\ Shape /\ Fits(reqs[r]) /\ config \in Config
  BY DEF Inv, ReqsInv, ServerInv
<1>1. ASSUME NEW b, LogNext(r, b), reqs[r].form \in {"write", "flag", "fota"}
      PROVE  /\ ReqsInv' /\ reqs[r].form # "config" /\ reqs'[r].form # "config"
             /\ \A q \in Req \ {r} : reqs'[q] = reqs[q]
  <2>1. /\ ReqsInv' /\ reqs'[r].form = reqs[r].form
        /\ \A q \in Req \ {r} : reqs'[q] = reqs[q]
    BY <1>0, <1>1, LogNextFits
  <2> QED
    BY <1>1, <2>1
<1>2. ASSUME NEW pc, NEW todo, Go(r, pc, todo), pc # "idle",
             reqs[r].form \in {"write", "flag", "fota"}
      PROVE  /\ ReqsInv' /\ reqs[r].form # "config" /\ reqs'[r].form # "config"
             /\ \A q \in Req \ {r} : reqs'[q] = reqs[q]
  <2>1. /\ Shape' /\ \A q \in Req \ {r} : reqs'[q] = reqs[q]
        /\ reqs'[r].pc = pc /\ Same(reqs'[r], reqs[r], {"pc", "todo"})
    BY <1>0, <1>2, GoFacts
  <2>2. Fits(reqs'[r]) /\ reqs'[r].form = reqs[r].form
    BY <1>0, <1>2, <2>1 DEF Fits, Same, Fields
  <2> QED
    BY <1>0, <1>2, <2>1, <2>2, OthersFit
<1>3. ASSUME NEW out, Finished(r, out), reqs[r].form \in {"write", "flag", "fota", "load"},
             reqs[r].form = "load" => out \in Config
      PROVE  /\ ReqsInv' /\ reqs[r].form # "config" /\ reqs'[r].form # "config"
             /\ \A q \in Req \ {r} : reqs'[q] = reqs[q]
  <2>1. /\ Shape' /\ \A q \in Req \ {r} : reqs'[q] = reqs[q]
        /\ reqs'[r].pc = "done" /\ reqs'[r].out = out /\ Same(reqs'[r], reqs[r], {"pc", "out"})
    BY <1>0, <1>3, FinishedFacts
  <2>2. Fits(reqs'[r]) /\ reqs'[r].form = reqs[r].form
    BY <1>0, <1>3, <2>1 DEF Fits, Same, Fields
  <2> QED
    BY <1>0, <1>3, <2>1, <2>2, OthersFit
<1>4. CASE WriteRoute(r)
  BY <1>1, <1>2, <1>3, <1>4 DEF WriteRoute
<1>5. CASE LoadRoute(r)
  BY <1>0, <1>3, <1>5 DEF LoadRoute
<1>6. CASE FlagRoute(r)
  BY <1>1, <1>2, <1>3, <1>6 DEF FlagRoute
<1>7. CASE FotaRoute(r)
  BY <1>1, <1>2, <1>3, <1>7 DEF FotaRoute
<1> QED
  BY <1>4, <1>5, <1>6, <1>7

\* The steps of api_config, by the place in it that they start from.
LEMMA ConfigRouteFits ==
  ASSUME Inv, NEW r \in Req, ConfigRoute(r)
  PROVE  /\ ReqsInv' /\ reqs[r].form = "config" /\ reqs'[r].form = "config"
         /\ \A q \in Req \ {r} : reqs'[q] = reqs[q]
         /\ \/ reqs[r].pc = "sent" /\ reqs'[r].pc = "merge" /\ UNCHANGED server
            \/ /\ reqs[r].pc = "merge" /\ reqs'[r].pc = "merge" /\ UNCHANGED <<topic, logs>>
               /\ \E i \in Order(reqs[r].body) : config' = Merged(reqs[r].body, i)
            \/ /\ reqs[r].pc = "merge" /\ reqs'[r].pc = "publish" /\ reqs'[r].out = config
               /\ UNCHANGED server
            \/ /\ reqs[r].pc = "publish" /\ reqs'[r].pc = "log" /\ UNCHANGED <<config, logs>>
               /\ topic' = Append(topic, [form |-> "config", load |-> reqs[r].out, want |-> {}])
            \/ /\ reqs[r].pc = "log" /\ reqs'[r].pc = "reply" /\ UNCHANGED <<config, topic>>
               /\ logs' = Pushed("config", config)
            \/ reqs[r].pc = "reply" /\ reqs'[r].pc = "done" /\ UNCHANGED server
<1>0. ReqsInv /\ Shape /\ Fits(reqs[r]) /\ config \in Config /\ reqs[r].form = "config"
  BY DEF Inv, ReqsInv, ServerInv, ConfigRoute
<1>1. CASE /\ reqs[r].pc = "sent"
           /\ reqs' = [reqs EXCEPT ![r].pc = "merge", ![r].left = Order(reqs[r].body)]
           /\ UNCHANGED server
  <2> DEFINE all == Order(reqs[r].body)
  <2>1. reqs' = [reqs EXCEPT ![r].pc = "merge", ![r].left = all]
    BY <1>1
  <2> HIDE DEF all
  <2>2. /\ Shape' /\ \A q \in Req \ {r} : reqs'[q] = reqs[q]
        /\ reqs'[r].pc = "merge" /\ reqs'[r].left = all
        /\ Same(reqs'[r], reqs[r], {"pc", "left"})
    BY <1>0, <2>1, MergeFacts
  <2>3. Fits(reqs'[r]) /\ reqs'[r].form = "config"
    BY <1>0, <2>2 DEF Fits, Same, Fields, all
  <2> QED
    BY <1>0, <1>1, <2>2, <2>3, OthersFit
<1>2. CASE /\ reqs[r].pc = "merge" /\ UNCHANGED <<topic, logs>>
           /\ \E i \in reqs[r].left :
                /\ \A j \in reqs[r].left : i <= j
                /\ config' = Merged(reqs[r].body, i)
                /\ reqs' = [reqs EXCEPT ![r].left = @ \ {i}]
  <2>1. PICK i \in reqs[r].left : /\ config' = Merged(reqs[r].body, i)
                                  /\ reqs' = [reqs EXCEPT ![r].left = @ \ {i}]
    BY <1>2
  <2> DEFINE rest == reqs[r].left \ {i}
             x == [reqs[r] EXCEPT !.left = rest]
  <2>2. DOMAIN x = Fields /\ x.left = rest /\ Same(x, reqs[r], {"left"})
    BY <1>0 DEF Shape, Fields, Same
  <2>3. reqs' = [reqs EXCEPT ![r] = x]
    BY <1>0, <2>1 DEF Shape
  <2>4. rest \subseteq reqs[r].left
    OBVIOUS
  <2> HIDE DEF x, rest
  <2>5. Shape' /\ reqs'[r] = x /\ \A q \in Req \ {r} : reqs'[q] = reqs[q]
    BY <1>0, <2>2, <2>3, ShapeFacts
  <2>6. Fits(reqs'[r]) /\ reqs'[r].form = "config" /\ reqs'[r].pc = "merge"
    BY <1>0, <1>2, <2>2, <2>4, <2>5 DEF Fits, Same, Fields
  <2>7. i \in Order(reqs[r].body)
    BY <1>0 DEF Fits
  <2> QED
    BY <1>0, <1>2, <2>1, <2>5, <2>6, <2>7, OthersFit
<1>3. CASE /\ reqs[r].pc = "merge" /\ reqs[r].left = {} /\ UNCHANGED server
           /\ reqs' = [reqs EXCEPT ![r].pc = "publish", ![r].out = Copy]
  <2>1. /\ Shape' /\ \A q \in Req \ {r} : reqs'[q] = reqs[q]
        /\ reqs'[r].pc = "publish" /\ reqs'[r].out = config
        /\ Same(reqs'[r], reqs[r], {"pc", "out"})
    BY <1>0, <1>3, CopyFacts DEF Copy
  <2>2. Fits(reqs'[r]) /\ reqs'[r].form = "config"
    BY <1>0, <2>1 DEF Fits, Same, Fields
  <2> QED
    BY <1>0, <1>3, <2>1, <2>2, OthersFit
<1>4. ASSUME NEW pc \in {"log", "reply"}, Go(r, pc, <<>>)
      PROVE  /\ ReqsInv' /\ reqs'[r].form = "config" /\ reqs'[r].pc = pc
             /\ \A q \in Req \ {r} : reqs'[q] = reqs[q]
  <2>1. /\ Shape' /\ \A q \in Req \ {r} : reqs'[q] = reqs[q]
        /\ reqs'[r].pc = pc /\ Same(reqs'[r], reqs[r], {"pc", "todo"})
    BY <1>0, <1>4, GoFacts
  <2>2. Fits(reqs'[r]) /\ reqs'[r].form = "config"
    BY <1>0, <2>1 DEF Fits, Same, Fields
  <2> QED
    BY <1>0, <2>1, <2>2, OthersFit
<1>5. CASE reqs[r].pc = "reply" /\ Finished(r, config) /\ UNCHANGED server
  <2>1. /\ Shape' /\ \A q \in Req \ {r} : reqs'[q] = reqs[q]
        /\ reqs'[r].pc = "done" /\ Same(reqs'[r], reqs[r], {"pc", "out"})
    BY <1>0, <1>5, FinishedFacts
  <2>2. Fits(reqs'[r]) /\ reqs'[r].form = "config"
    BY <1>0, <2>1 DEF Fits, Same, Fields
  <2> QED
    BY <1>0, <1>5, <2>1, <2>2, OthersFit
<1>6. CASE /\ reqs[r].pc = "publish" /\ Go(r, "log", <<>>) /\ UNCHANGED <<config, logs>>
           /\ topic' = Append(topic, [form |-> "config", load |-> reqs[r].out, want |-> {}])
  BY <1>0, <1>4, <1>6
<1>7. CASE /\ reqs[r].pc = "log" /\ Go(r, "reply", <<>>) /\ UNCHANGED <<config, topic>>
           /\ logs' = Pushed("config", config)
  BY <1>0, <1>4, <1>7
<1> QED
  BY <1>1, <1>2, <1>3, <1>5, <1>6, <1>7 DEF ConfigRoute

\* A request that is answered or lost leaves its place; no handler holds it then.
LEMMA RestsFits ==
  ASSUME Inv, NEW r \in Req, Answered(r) \/ Lost(r)
  PROVE  /\ ReqsInv' /\ reqs'[r].form = "none" /\ \A q \in Req \ {r} : reqs'[q] = reqs[q]
         /\ reqs[r].pc \in {"sent", "done"} /\ reqs[r].form \in Form
<1>1. ReqsInv /\ Shape /\ Fits(reqs[r]) /\ reqs[r].pc \in {"sent", "done"}
  BY DEF Inv, ReqsInv, Answered, Lost
<1>2. /\ Shape' /\ \A q \in Req \ {r} : reqs'[q] = reqs[q]
      /\ reqs'[r].pc = "idle" /\ reqs'[r].form = "none"
  BY <1>1, RestsFacts DEF Answered, Lost
<1>3. Fits(reqs'[r])
  BY <1>2 DEF Fits
<1>4. reqs[r].form \in Form
  BY <1>1 DEF Fits
<1> QED
  BY <1>1, <1>2, <1>3, <1>4, OthersFit

LEMMA ReqsSteps ==
  ASSUME Inv, [Next]_vars
  PROVE  ReqsInv'
<1>1. ASSUME NEW r \in Req, Submit(r) \/ Route(r) \/ Answered(r) \/ Lost(r) PROVE ReqsInv'
  BY <1>1, SubmitFits, PlainRouteFits, ConfigRouteFits, RestsFits DEF Route
<1>2. ASSUME UNCHANGED reqs PROVE ReqsInv'
  BY <1>2, ReqsStay DEF Inv
<1>3. CASE Switch \/ Edit \/ Report
  BY <1>2, <1>3 DEF Switch, Edit, Report
<1>4. ASSUME NEW b \in Watched, PollLogs(b) \/ ShowLogs(b) PROVE ReqsInv'
  BY <1>2, <1>4 DEF PollLogs, ShowLogs
<1>5. CASE UNCHANGED vars
  BY <1>2, <1>5 DEF vars
<1> QED
  BY <1>1, <1>3, <1>4, <1>5 DEF Next

-----------------------------------------------------------------------------
(* The logs.                                                                   *)

\* push_log numbers the new event one higher than the last, and trims from the front.
LEMMA PushedFacts ==
  ASSUME LogInv, NEW b \in Bucket, NEW sent \in Config \cup {Empty}
  PROVE  /\ Pushed(b, sent) \in [Bucket -> Seq(Event)]
         /\ \A a \in Bucket \ {b} : Pushed(b, sent)[a] = logs[a]
         /\ Len(Pushed(b, sent)[b]) <= MaxEvents /\ Numbered(Pushed(b, sent)[b])
         /\ \E e \in Event : /\ e.sent = sent
                             /\ \/ Pushed(b, sent)[b] = Append(logs[b], e)
                                \/ Pushed(b, sent)[b] = Tail(Append(logs[b], e))
<1> DEFINE s == logs[b]
           n == IF s = <<>> THEN 1 ELSE s[Len(s)].n + 1
           e == [n |-> n, sent |-> sent]
           l == Append(s, e)
           t == IF Len(l) > MaxEvents THEN Tail(l) ELSE l
<1>1. logs \in [Bucket -> Seq(Event)] /\ s \in Seq(Event) /\ Len(s) <= MaxEvents /\ Numbered(s)
  BY DEF LogInv
<1>2. n \in Nat /\ n # 0 /\ (s # <<>> => n = s[Len(s)].n + 1)
  <2>1. CASE s = <<>>
    BY <2>1
  <2>2. CASE s # <<>>
    <3>1. Len(s) \in 1..Len(s)
      BY <1>1, <2>2
    <3>2. s[Len(s)] \in Event
      BY <1>1, <3>1
    <3> QED
      BY <2>2, <3>2 DEF Event
  <2> QED
    BY <2>1, <2>2
<1>3. Pushed(b, sent) = [logs EXCEPT ![b] = t]
  BY DEF Pushed
<1> HIDE DEF n
<1>4. e \in Event /\ e.n = n /\ e.sent = sent
  BY <1>2 DEF Event
<1> HIDE DEF e
<1>5. /\ l \in Seq(Event) /\ Len(l) = Len(s) + 1 /\ l[Len(s) + 1] = e
      /\ \A i \in 1..Len(s) : l[i] = s[i]
  BY <1>1, <1>4
<1>6. Numbered(l)
  <2>1. ASSUME NEW i \in 1..(Len(l) - 1) PROVE l[i + 1].n = l[i].n + 1
    <3>1. CASE i = Len(s)
      BY <1>1, <1>2, <1>4, <1>5, <3>1
    <3>2. CASE i # Len(s)
      <4>1. i \in 1..(Len(s) - 1) /\ i + 1 \in 1..Len(s)
        BY <1>1, <1>5, <3>2
      <4> QED
        BY <1>1, <1>5, <4>1 DEF Numbered
    <3> QED
      BY <3>1, <3>2
  <2>2. ASSUME NEW i \in 1..Len(l) PROVE l[i].n # 0
    <3>1. CASE i = Len(s) + 1
      BY <1>2, <1>4, <1>5, <3>1
    <3>2. CASE i # Len(s) + 1
      <4>1. i \in 1..Len(s)
        BY <1>1, <1>5, <3>2
      <4>2. l[i] = s[i] /\ s[i].n # 0
        BY <1>1, <1>5, <4>1 DEF Numbered
      <4> QED
        BY <4>2
    <3> QED
      BY <3>1, <3>2
  <2> QED
    BY <2>1, <2>2 DEF Numbered
<1> HIDE DEF s, l
<1>7. t \in Seq(Event) /\ Len(t) <= MaxEvents /\ Numbered(t)
  <2>1. CASE Len(l) > MaxEvents
    <3>1. l # <<>> /\ t = Tail(l) /\ MaxEvents \in Nat
      BY <1>1, <1>5, <2>1, FormAssumption
    <3>2. /\ Tail(l) \in Seq(Event) /\ Len(Tail(l)) = Len(s)
          /\ \A i \in 1..Len(s) : Tail(l)[i] = l[i + 1]
      BY <1>1, <1>5, <3>1
    <3>3. Numbered(Tail(l))
      <4>1. ASSUME NEW i \in 1..(Len(s) - 1) PROVE Tail(l)[i + 1].n = Tail(l)[i].n + 1
        <5>1. i \in 1..Len(s) /\ i + 1 \in 1..Len(s) /\ i + 1 \in 1..(Len(l) - 1)
          BY <1>1, <1>5
        <5>2. Tail(l)[i] = l[i + 1] /\ Tail(l)[i + 1] = l[(i + 1) + 1]
          BY <3>2, <5>1
        <5> QED
          BY <1>6, <5>1, <5>2 DEF Numbered
      <4>2. ASSUME NEW i \in 1..Len(s) PROVE Tail(l)[i].n # 0
        <5>1. i + 1 \in 1..Len(l) /\ Tail(l)[i] = l[i + 1]
          BY <1>1, <1>5, <3>2
        <5> QED
          BY <1>6, <5>1 DEF Numbered
      <4> QED
        BY <3>2, <4>1, <4>2 DEF Numbered
    <3> QED
      BY <1>1, <3>1, <3>2, <3>3
  <2>2. CASE ~(Len(l) > MaxEvents)
    BY <1>1, <1>5, <1>6, <2>2, FormAssumption
  <2> QED
    BY <2>1, <2>2
<1>8. t = l \/ t = Tail(l)
  OBVIOUS
<1> HIDE DEF t
<1>9. /\ Pushed(b, sent) \in [Bucket -> Seq(Event)] /\ Pushed(b, sent)[b] = t
      /\ \A a \in Bucket \ {b} : Pushed(b, sent)[a] = logs[a]
  BY <1>1, <1>3, <1>7
<1> QED
  BY <1>4, <1>7, <1>8, <1>9 DEF l, s

LEMMA PushKeepsLogs ==
  ASSUME LogInv, NEW b \in Bucket, NEW sent \in Config \cup {Empty}, logs' = Pushed(b, sent),
         UNCHANGED <<panel, fetch>>
  PROVE  LogInv'
<1>1. /\ logs' \in [Bucket -> Seq(Event)]
      /\ \A a \in Bucket \ {b} : logs'[a] = logs[a]
      /\ Len(logs'[b]) <= MaxEvents /\ Numbered(logs'[b])
  BY PushedFacts
<1>2. ASSUME NEW a \in Bucket PROVE Len(logs'[a]) <= MaxEvents /\ Numbered(logs'[a])
  <2>1. CASE a = b
    BY <1>1, <2>1
  <2>2. CASE a # b
    <3>1. logs'[a] = logs[a] /\ Len(logs[a]) <= MaxEvents /\ Numbered(logs[a])
      BY <1>1, <2>2 DEF LogInv
    <3> QED
      BY <3>1
  <2> QED
    BY <2>1, <2>2
<1> QED
  BY <1>1, <1>2 DEF LogInv, InOrder, Numbered

LEMMA LogsStay ==
  ASSUME LogInv, UNCHANGED <<logs, panel, fetch>>
  PROVE  LogInv'
BY DEF LogInv, InOrder, Numbered

\* A line of the page itself goes above the others; any line may follow it.
LEMMA LineKeepsLogs ==
  ASSUME LogInv, NEW p \in Panel, LogLine(p, Local), UNCHANGED <<logs, fetch>>
  PROVE  LogInv'
<1> DEFINE s == panel[p]
           t == <<Local>> \o s
<1>1. s \in Seq(Event) /\ InOrder(s) /\ panel' = [panel EXCEPT ![p] = t]
  BY DEF LogInv, LogLine
<1>2. Local \in Event /\ Local.n = 0
  BY DEF Local, Event
<1> HIDE DEF s
<1>3. /\ t \in Seq(Event) /\ Len(t) = Len(s) + 1 /\ t[1] = Local
      /\ \A i \in 1..Len(s) : t[i + 1] = s[i]
  BY <1>1, <1>2
<1> HIDE DEF t
<1>4. InOrder(t)
  <2>1. ASSUME NEW i \in 2..Len(t)
        PROVE  t[i - 1].n = 0 \/ (t[i].n # 0 /\ t[i - 1].n = t[i].n + 1)
    <3>1. CASE i = 2
      BY <1>2, <1>3, <3>1
    <3>2. CASE i # 2
      <4>1. i - 1 \in 2..Len(s) /\ i - 2 \in 1..Len(s)
        BY <1>1, <1>3, <3>2
      <4>2. t[i] = s[i - 1] /\ t[i - 1] = s[i - 2]
        <5>1. t[(i - 1) + 1] = s[i - 1] /\ t[(i - 2) + 1] = s[i - 2]
          BY <1>3, <4>1
        <5> QED
          BY <5>1
      <4>3. s[(i - 1) - 1].n = 0 \/ (s[i - 1].n # 0 /\ s[(i - 1) - 1].n = s[i - 1].n + 1)
        BY <1>1, <4>1 DEF InOrder
      <4> QED
        BY <4>2, <4>3
    <3> QED
      BY <3>1, <3>2
  <2> QED
    BY <2>1 DEF InOrder
<1>5. panel' \in [Panel -> Seq(Event)] /\ \A q \in Panel : InOrder(panel'[q])
  BY <1>1, <1>3, <1>4 DEF LogInv
<1> QED
  BY <1>5 DEF LogInv, InOrder, Numbered

\* A copy of a bucket, turned round, is a panel in order.
LEMMA NewestInOrder ==
  ASSUME NEW s \in Seq(Event), Numbered(s)
  PROVE  Newest(s) \in Seq(Event) /\ InOrder(Newest(s))
<1> DEFINE t == Newest(s)
<1>1. Len(s) \in Nat /\ t = [i \in 1..Len(s) |-> s[Len(s) + 1 - i]]
  BY DEF Newest
<1>2. \A i \in 1..Len(s) : t[i] = s[Len(s) + 1 - i] /\ Len(s) + 1 - i \in 1..Len(s)
  BY <1>1
<1>3. t \in Seq(Event) /\ Len(t) = Len(s)
  BY <1>1, <1>2
<1> HIDE DEF t
<1>4. ASSUME NEW i \in 2..Len(t) PROVE t[i].n # 0 /\ t[i - 1].n = t[i].n + 1
  <2> DEFINE j == Len(s) + 1 - i
  <2>1. j \in 1..(Len(s) - 1) /\ j + 1 = Len(s) + 1 - (i - 1) /\ i - 1 \in 1..Len(s) /\ i \in 1..Len(s)
    BY <1>1, <1>3
  <2>2. t[i] = s[j] /\ t[i - 1] = s[j + 1]
    BY <1>2, <2>1
  <2>3. s[j + 1].n = s[j].n + 1 /\ s[j].n # 0 /\ s[j] \in Event
    BY <2>1 DEF Numbered
  <2> QED
    BY <2>2, <2>3 DEF Event
<1> QED
  BY <1>3, <1>4 DEF InOrder, t

\* A poll copies a bucket; its answer replaces a panel.
LEMMA PollKeepsLogs ==
  ASSUME LogInv, NEW b \in Watched, PollLogs(b) \/ ShowLogs(b)
  PROVE  LogInv'
<1>1. b \in Bucket /\ b \in Panel
  BY FormAssumption DEF Bucket, Panel
<1>2. CASE PollLogs(b)
  <2>1. fetch' = [fetch EXCEPT ![b] = @ \cup {logs[b]}] /\ UNCHANGED <<logs, panel>>
    BY <1>2 DEF PollLogs, server
  <2>2. /\ fetch \in [Bucket -> SUBSET Seq(Event)] /\ logs[b] \in Seq(Event)
        /\ Numbered(logs[b]) /\ \A a \in Bucket : \A s \in fetch[a] : Numbered(s)
    BY <1>1 DEF LogInv
  <2>3. fetch' \in [Bucket -> SUBSET Seq(Event)]
    BY <2>1, <2>2
  <2>4. ASSUME NEW a \in Bucket, NEW s \in fetch'[a] PROVE Numbered(s)
    <3>1. s \in fetch[a] \/ (a = b /\ s = logs[b])
      BY <1>1, <2>1, <2>2
    <3> QED
      BY <2>2, <3>1
  <2> QED
    BY <2>1, <2>3, <2>4 DEF LogInv, InOrder, Numbered
<1>3. CASE ShowLogs(b)
  <2>1. PICK s \in fetch[b] : /\ fetch' = [fetch EXCEPT ![b] = @ \ {s}]
                              /\ panel' = [panel EXCEPT ![b] = Newest(s)]
    BY <1>3 DEF ShowLogs
  <2>2. /\ fetch \in [Bucket -> SUBSET Seq(Event)] /\ s \in Seq(Event)
        /\ Numbered(s) /\ \A a \in Bucket : \A u \in fetch[a] : Numbered(u)
    BY <1>1 DEF LogInv
  <2>3. Newest(s) \in Seq(Event) /\ InOrder(Newest(s))
    BY <2>2, NewestInOrder
  <2>4. fetch' \in [Bucket -> SUBSET Seq(Event)]
    BY <2>1, <2>2
  <2>5. \A a \in Bucket : \A u \in fetch'[a] : Numbered(u)
    BY <1>1, <2>1, <2>2
  <2>6. panel' \in [Panel -> Seq(Event)] /\ \A p \in Panel : InOrder(panel'[p])
    BY <1>1, <2>1, <2>3 DEF LogInv
  <2>7. UNCHANGED logs
    BY <1>3 DEF ShowLogs, server
  <2> QED
    BY <2>4, <2>5, <2>6, <2>7 DEF LogInv, InOrder, Numbered
<1> QED
  BY <1>2, <1>3

LEMMA EmptyPanel ==
  ASSUME LogInv, panel' = [panel EXCEPT !["flag"] = <<>>], UNCHANGED <<logs, fetch>>
  PROVE  LogInv'
<1>1. "flag" \in Panel /\ <<>> \in Seq(Event) /\ InOrder(<<>>)
  BY DEF Panel, InOrder
<1>2. panel' \in [Panel -> Seq(Event)] /\ \A p \in Panel : InOrder(panel'[p])
  BY <1>1 DEF LogInv
<1> QED
  BY <1>2 DEF LogInv, InOrder, Numbered

LEMMA RouteKeepsLogs ==
  ASSUME Inv, NEW r \in Req, Route(r)
  PROVE  LogInv'
<1>1. LogInv /\ config \in Config /\ UNCHANGED <<panel, fetch>>
  BY DEF Inv, ServerInv, Route
<1>2. CASE UNCHANGED logs
  BY <1>1, <1>2, LogsStay
<1>3. ASSUME NEW b \in Bucket, NEW sent \in Config \cup {Empty}, logs' = Pushed(b, sent)
      PROVE  LogInv'
  BY <1>1, <1>3, PushKeepsLogs
<1>4. "write" \in Bucket /\ "config" \in Bucket /\ "device" \in Bucket /\ "fota" \in Bucket
  BY DEF Bucket
<1>5. CASE WriteRoute(r)
  BY <1>2, <1>3, <1>4, <1>5 DEF WriteRoute, LogNext, server
<1>6. CASE ConfigRoute(r)
  BY <1>1, <1>2, <1>3, <1>4, <1>6 DEF ConfigRoute, server
<1>7. CASE LoadRoute(r)
  BY <1>2, <1>7 DEF LoadRoute, server
<1>8. CASE FlagRoute(r)
  BY <1>2, <1>3, <1>4, <1>8 DEF FlagRoute, LogNext, server
<1>9. CASE FotaRoute(r)
  BY <1>2, <1>3, <1>4, <1>9 DEF FotaRoute, LogNext, server
<1> QED
  BY <1>5, <1>6, <1>7, <1>8, <1>9 DEF Route

LEMMA LogSteps ==
  ASSUME Inv, [Next]_vars
  PROVE  LogInv'
<1>0. LogInv
  BY DEF Inv
<1>1. CASE UNCHANGED <<logs, panel, fetch>>
  BY <1>0, <1>1, LogsStay
<1>2. ASSUME NEW p \in Panel, LogLine(p, Local), UNCHANGED <<logs, fetch>> PROVE LogInv'
  BY <1>0, <1>2, LineKeepsLogs
<1>3. ASSUME NEW r \in Req, Submit(r) PROVE LogInv'
  <2>1. "write" \in Panel /\ "flag" \in Panel /\ "fota" \in Panel
    BY DEF Panel, Bucket
  <2> QED
    BY <1>1, <1>2, <1>3, <2>1
       DEF Submit, server, SubmitWrite, SubmitConfig, SubmitLoad, SubmitFlag, SubmitFota
<1>4. ASSUME NEW r \in Req, Answered(r) \/ Lost(r) PROVE LogInv'
  <2>1. UNCHANGED <<logs, fetch>> /\ reqs[r].form \in Form
    BY <1>4, RestsFits DEF Answered, Lost, server
  <2>2. PanelOf(reqs[r].form) \in Panel
    BY <2>1 DEF PanelOf, Panel, Bucket, Form
  <2>3. LogLine(PanelOf(reqs[r].form), Local) \/ panel' = panel
    BY <1>4 DEF Answered, Lost
  <2> QED
    BY <1>1, <1>2, <2>1, <2>2, <2>3
<1>5. CASE Edit
  BY <1>0, <1>1, <1>5, EmptyPanel DEF Edit, server
<1>6. CASE Report
  <2>1. PICK b \in Watched : logs' = Pushed(b, Empty)
    BY <1>6 DEF Report
  <2>2. b \in Bucket /\ UNCHANGED <<panel, fetch>>
    BY <1>6, FormAssumption DEF Bucket, Report
  <2> QED
    BY <1>0, <2>1, <2>2, PushKeepsLogs
<1>7. CASE Switch \/ UNCHANGED vars
  BY <1>1, <1>7 DEF Switch, vars, server
<1> QED
  BY <1>0, <1>3, <1>4, <1>5, <1>6, <1>7, RouteKeepsLogs, PollKeepsLogs DEF Next

-----------------------------------------------------------------------------
(* What the server has published, and current_config.                          *)

\* One key of the patch leaves a configuration a configuration.
LEMMA MergedFacts ==
  ASSUME config \in Config, NEW p, IsPatch(p), NEW i \in Order(p)
  PROVE  Merged(p, i) \in Config
<1>1. CASE i \in DOMAIN p.params
  <2>1. p.params[i] \in Value /\ i \in 1..Len(Keys)
    BY <1>1 DEF IsPatch
  <2>2. Keys[i] \in Key
    BY <2>1 DEF Key
  <2> QED
    BY <1>1, <2>1, <2>2 DEF Merged, Config
<1>2. CASE i \notin DOMAIN p.params
  BY <1>2 DEF Merged, Config, IsPatch
<1> QED
  BY <1>1, <1>2

LEMMA Publishing ==
  ASSUME ServerInv, NEW m \in Published, WriteShown(m), topic' = Append(topic, m),
         UNCHANGED <<config, alone>>
  PROVE  ServerInv'
<1>1. topic \in Seq(Published)
  BY DEF ServerInv
<1>2. /\ topic' \in Seq(Published) /\ Len(topic') = Len(topic) + 1 /\ topic'[Len(topic) + 1] = m
      /\ \A i \in 1..Len(topic) : topic'[i] = topic[i]
  BY <1>1
<1>3. ASSUME NEW i \in 1..Len(topic') PROVE WriteShown(topic'[i])
  <2>1. CASE i = Len(topic) + 1
    BY <1>2, <2>1
  <2>2. CASE i # Len(topic) + 1
    <3>1. topic'[i] = topic[i] /\ WriteShown(topic[i])
      BY <1>1, <1>2, <2>2 DEF ServerInv
    <3> QED
      BY <3>1
  <2> QED
    BY <2>1, <2>2
<1> QED
  BY <1>2, <1>3 DEF ServerInv, WriteShown

LEMMA ServerStays ==
  ASSUME ServerInv, UNCHANGED topic, config' \in Config, alone' \in BOOLEAN
  PROVE  ServerInv'
BY DEF ServerInv, WriteShown

LEMMA ServerSteps ==
  ASSUME Inv, [Next]_vars
  PROVE  ServerInv'
<1>0. ServerInv /\ config \in Config /\ alone \in BOOLEAN
  BY DEF Inv, ServerInv
<1>1. ASSUME UNCHANGED <<topic, config>>, alone' \in BOOLEAN PROVE ServerInv'
  BY <1>0, <1>1, ServerStays
<1>2. ASSUME NEW r \in Req, Submit(r) PROVE ServerInv'
  <2>1. UNCHANGED <<topic, config>>
    BY <1>2 DEF Submit, server
  <2>2. alone' \in BOOLEAN
    <3>1. alone' = alone \/ alone' = (alone /\ ~Configuring(r))
      BY <1>2 DEF Submit, SubmitWrite, SubmitConfig, SubmitLoad, SubmitFlag, SubmitFota
    <3> QED
      BY <1>0, <3>1
  <2> QED
    BY <1>1, <2>1, <2>2
<1>3. ASSUME NEW r \in Req, Route(r) PROVE ServerInv'
  <2>0. alone' \in BOOLEAN /\ UNCHANGED alone /\ Fits(reqs[r])
    BY <1>0, <1>3 DEF Route, Inv, ReqsInv
  <2>1. CASE UNCHANGED <<topic, config>>
    BY <1>1, <2>0, <2>1
  <2>2. CASE WriteRoute(r) /\ reqs[r].pc = "publish"
    <3> DEFINE m == [form |-> "write", load |-> Payload(reqs[r].body), want |-> reqs[r].want]
    <3>1. topic' = Append(topic, m) /\ UNCHANGED config
      BY <2>2 DEF WriteRoute, LogNext
    <3>2. m \in Published /\ WriteShown(m)
      BY <2>0, <2>2 DEF Fits, Published, WriteShown, WriteRoute
    <3> QED
      BY <1>0, <2>0, <3>1, <3>2, Publishing
  <2>3. CASE WriteRoute(r) /\ reqs[r].pc # "publish"
    BY <2>1, <2>3 DEF WriteRoute, LogNext, server
  <2>4. CASE LoadRoute(r) \/ FlagRoute(r) \/ FotaRoute(r)
    BY <2>1, <2>4 DEF LoadRoute, FlagRoute, FotaRoute, LogNext, server
  <2>5. CASE ConfigRoute(r)
    <3>1. CASE reqs[r].pc = "publish"
      <4> DEFINE m == [form |-> "config", load |-> reqs[r].out, want |-> {}]
      <4>1. topic' = Append(topic, m) /\ UNCHANGED config /\ reqs[r].form = "config"
        BY <2>5, <3>1, ConfigRouteFits
      <4>2. m \in Published /\ WriteShown(m)
        BY <2>0, <3>1, <4>1 DEF Fits, Published, WriteShown
      <4> QED
        BY <1>0, <2>0, <4>1, <4>2, Publishing
    <3>2. CASE reqs[r].pc = "merge"
      <4>1. UNCHANGED topic /\ (UNCHANGED config \/ \E i \in Order(reqs[r].body) : config' = Merged(reqs[r].body, i))
        BY <2>5, <3>2, ConfigRouteFits DEF server
      <4>2. IsPatch(reqs[r].body)
        BY <2>0, <2>5 DEF Fits, ConfigRoute
      <4>3. config' \in Config
        BY <1>0, <4>1, <4>2, MergedFacts
      <4> QED
        BY <1>0, <2>0, <4>1, <4>3, ServerStays
    <3>3. CASE reqs[r].pc \notin {"publish", "merge"}
      BY <2>1, <2>5, <3>3, ConfigRouteFits DEF server
    <3> QED
      BY <3>1, <3>2, <3>3
  <2> QED
    BY <1>3, <2>2, <2>3, <2>4, <2>5 DEF Route
<1>4. ASSUME NEW r \in Req, Answered(r) \/ Lost(r) PROVE ServerInv'
  BY <1>0, <1>1, <1>4 DEF Answered, Lost, server
<1>5. ASSUME NEW b \in Watched, PollLogs(b) \/ ShowLogs(b) PROVE ServerInv'
  BY <1>0, <1>1, <1>5 DEF PollLogs, ShowLogs, server
<1>6. CASE Switch \/ Edit \/ Report \/ UNCHANGED vars
  BY <1>0, <1>1, <1>6 DEF Switch, Edit, Report, server, vars
<1> QED
  BY <1>2, <1>3, <1>4, <1>5, <1>6 DEF Next

-----------------------------------------------------------------------------
(* One configuration everywhere.                                               *)

LEMMA TopicFacts ==
  ASSUME topic \in Seq(Published), NEW m \in Published, topic' = Append(topic, m)
  PROVE  /\ m.form # "config" => \A c : TopicSays(c) => TopicSays(c)'
         /\ m.form = "config" => \A c : c = m.load => TopicSays(c)'
<1>1. /\ Len(topic) \in Nat /\ Len(topic') = Len(topic) + 1 /\ topic'[Len(topic) + 1] = m
      /\ \A i \in 1..Len(topic) : topic'[i] = topic[i]
  OBVIOUS
<1>2. ASSUME m.form # "config", NEW c, TopicSays(c) PROVE TopicSays(c)'
  <2>1. ASSUME NEW i \in 1..Len(topic'), topic'[i].form = "config",
               \A j \in (i + 1)..Len(topic') : topic'[j].form # "config"
        PROVE  topic'[i].load = c
    <3>1. i \in 1..Len(topic) /\ topic[i].form = "config"
      BY <1>1, <1>2, <2>1
    <3>2. ASSUME NEW j \in (i + 1)..Len(topic) PROVE topic[j].form # "config"
      <4>1. j \in (i + 1)..Len(topic') /\ j \in 1..Len(topic)
        BY <1>1, <3>1
      <4> QED
        BY <1>1, <2>1, <4>1
    <3> QED
      BY <1>1, <1>2, <3>1, <3>2 DEF TopicSays
  <2> QED
    BY <2>1 DEF TopicSays
<1>3. ASSUME m.form = "config", NEW c, c = m.load PROVE TopicSays(c)'
  <2>1. ASSUME NEW i \in 1..Len(topic'),
               \A j \in (i + 1)..Len(topic') : topic'[j].form # "config"
        PROVE  topic'[i].load = c
    <3>1. CASE i = Len(topic) + 1
      BY <1>1, <1>3, <3>1
    <3>2. CASE i # Len(topic) + 1
      <4>1. Len(topic) + 1 \in (i + 1)..Len(topic')
        BY <1>1, <3>2
      <4> QED
        BY <1>1, <1>3, <2>1, <4>1
    <3> QED
      BY <3>1, <3>2
  <2> QED
    BY <2>1 DEF TopicSays
<1> QED
  BY <1>2, <1>3

\* Trimming a bucket forgets events, never the last one.
LEMMA LogSaysFacts ==
  ASSUME NEW s \in Seq(Event), NEW e \in Event, NEW c
  PROVE  /\ s # <<>> /\ LogSays(s, c) => LogSays(Tail(s), c)
         /\ e.sent = Empty /\ LogSays(s, c) => LogSays(Append(s, e), c)
         /\ e.sent = c /\ c # Empty => LogSays(Append(s, e), c)
<1> DEFINE l == Append(s, e)
<1>0. /\ Len(s) \in Nat /\ Len(l) = Len(s) + 1 /\ l[Len(s) + 1] = e
      /\ \A i \in 1..Len(s) : l[i] = s[i]
  OBVIOUS
<1>1. ASSUME s # <<>>, LogSays(s, c) PROVE LogSays(Tail(s), c)
  <2> DEFINE t == Tail(s)
  <2>1. Len(t) = Len(s) - 1 /\ \A i \in 1..Len(t) : t[i] = s[i + 1]
    BY <1>0, <1>1
  <2> HIDE DEF t
  <2>2. ASSUME NEW i \in 1..Len(t), t[i].sent # Empty,
               \A j \in (i + 1)..Len(t) : t[j].sent = Empty
        PROVE  t[i].sent = c
    <3>1. i + 1 \in 1..Len(s) /\ s[i + 1].sent # Empty
      BY <1>0, <2>1, <2>2
    <3>2. ASSUME NEW j \in (i + 2)..Len(s) PROVE s[j].sent = Empty
      <4>1. j - 1 \in (i + 1)..Len(t) /\ j - 1 \in 1..Len(t) /\ (j - 1) + 1 = j
        BY <1>0, <2>1
      <4>2. t[j - 1] = s[(j - 1) + 1] /\ t[j - 1].sent = Empty
        BY <2>1, <2>2, <4>1
      <4> QED
        BY <4>1, <4>2
    <3>3. (i + 1) + 1 = i + 2
      OBVIOUS
    <3>4. s[i + 1].sent = c
      BY <1>1, <3>1, <3>2, <3>3 DEF LogSays
    <3> QED
      BY <2>1, <3>4
  <2>3. LogSays(t, c)
    BY <2>2 DEF LogSays
  <2> QED
    BY <2>3 DEF t
<1> HIDE DEF l
<1>2. ASSUME e.sent = Empty, LogSays(s, c) PROVE LogSays(l, c)
  <2>1. ASSUME NEW i \in 1..Len(l), l[i].sent # Empty,
               \A j \in (i + 1)..Len(l) : l[j].sent = Empty
        PROVE  l[i].sent = c
    <3>1. i \in 1..Len(s) /\ s[i].sent # Empty
      BY <1>0, <1>2, <2>1
    <3>2. ASSUME NEW j \in (i + 1)..Len(s) PROVE s[j].sent = Empty
      <4>1. j \in (i + 1)..Len(l) /\ j \in 1..Len(s)
        BY <1>0, <3>1
      <4> QED
        BY <1>0, <2>1, <4>1
    <3> QED
      BY <1>0, <1>2, <3>1, <3>2 DEF LogSays
  <2> QED
    BY <2>1 DEF LogSays
<1>3. ASSUME e.sent = c, c # Empty PROVE LogSays(l, c)
  <2>1. ASSUME NEW i \in 1..Len(l), \A j \in (i + 1)..Len(l) : l[j].sent = Empty
        PROVE  l[i].sent = c
    <3>1. CASE i = Len(s) + 1
      BY <1>0, <1>3, <3>1
    <3>2. CASE i # Len(s) + 1
      <4>1. Len(s) + 1 \in (i + 1)..Len(l)
        BY <1>0, <3>2
      <4> QED
        BY <1>0, <1>3, <2>1, <4>1
    <3> QED
      BY <3>1, <3>2
  <2> QED
    BY <2>1 DEF LogSays
<1> QED
  BY <1>1, <1>2, <1>3 DEF l

LEMMA PushedSays ==
  ASSUME LogInv, NEW b \in Bucket, NEW c \in Config
  PROVE  /\ LogSays(logs["config"], c) => LogSays(Pushed(b, Empty)["config"], c)
         /\ LogSays(Pushed("config", c)["config"], c)
<1>0. "config" \in Bucket /\ c # Empty /\ logs["config"] \in Seq(Event)
  BY FormAssumption DEF Bucket, LogInv
<1> DEFINE s == logs["config"]
<1>1. ASSUME NEW e \in Event PROVE Append(s, e) \in Seq(Event) /\ Append(s, e) # <<>>
  BY <1>0
<1>2. LogSays(s, c) => LogSays(Pushed(b, Empty)["config"], c)
  <2>1. CASE b # "config"
    <3>1. Pushed(b, Empty)["config"] = s
      BY <1>0, <2>1, PushedFacts
    <3> QED
      BY <3>1
  <2>2. CASE b = "config"
    <3>1. PICK e \in Event : /\ e.sent = Empty
                             /\ \/ Pushed(b, Empty)["config"] = Append(s, e)
                                \/ Pushed(b, Empty)["config"] = Tail(Append(s, e))
      BY <2>2, PushedFacts
    <3>2. LogSays(s, c) => LogSays(Append(s, e), c)
      BY <1>0, <3>1, LogSaysFacts
    <3>3. LogSays(Append(s, e), c) => LogSays(Tail(Append(s, e)), c)
      BY <1>1, LogSaysFacts
    <3> QED
      BY <3>1, <3>2, <3>3
  <2> QED
    BY <2>1, <2>2
<1>3. LogSays(Pushed("config", c)["config"], c)
  <2>1. PICK e \in Event : /\ e.sent = c
                           /\ \/ Pushed("config", c)["config"] = Append(s, e)
                              \/ Pushed("config", c)["config"] = Tail(Append(s, e))
    <3>1. c \in Config \cup {Empty}
      OBVIOUS
    <3> HIDE DEF s
    <3>2. \E e \in Event : /\ e.sent = c
                           /\ \/ Pushed("config", c)["config"] = Append(logs["config"], e)
                              \/ Pushed("config", c)["config"] = Tail(Append(logs["config"], e))
      BY <1>0, <3>1, PushedFacts
    <3> QED
      BY <3>2 DEF s
  <2>2. LogSays(Append(s, e), c)
    BY <1>0, <2>1, LogSaysFacts
  <2>3. LogSays(Append(s, e), c) => LogSays(Tail(Append(s, e)), c)
    BY <1>1, LogSaysFacts
  <2> QED
    BY <2>1, <2>2, <2>3
<1> QED
  BY <1>2, <1>3

\* What a step has to show of the requests and the server.
LEMMA AgreeFrame ==
  ASSUME Inv, NEW r \in Req, ReqsInv', \A q \in Req \ {r} : reqs'[q] = reqs[q],
         UNCHANGED <<config, alone>>,
         TopicSays(config) => TopicSays(config)',
         LogSays(logs["config"], config) => LogSays(logs["config"], config)',
         Active(reqs'[r]) => Active(reqs[r]),
         Merging(reqs[r]) => Merging(reqs'[r]), Unlogged(reqs[r]) => Unlogged(reqs'[r]),
         Merging(reqs'[r]) /\ reqs'[r].pc = "publish" => reqs'[r].out = config
  PROVE  AgreeInv'
<1> SUFFICES ASSUME alone
             PROVE  /\ \A p, q \in Req : Active(reqs'[p]) /\ Active(reqs'[q]) => p = q
                    /\ (\A q \in Req : ~Merging(reqs'[q])) => TopicSays(config)'
                    /\ (\A q \in Req : ~Unlogged(reqs'[q])) => LogSays(logs["config"], config)'
                    /\ \A q \in Req : reqs'[q].form = "config" /\ reqs'[q].pc = "publish"
                                        => reqs'[q].out = config
  BY DEF AgreeInv, Active, Merging, Unlogged
<1>1. AgreeInv
  BY DEF Inv
<1>2. \A q \in Req : Active(reqs'[q]) => Active(reqs[q])
  OBVIOUS
<1>3. \A p, q \in Req : Active(reqs'[p]) /\ Active(reqs'[q]) => p = q
  BY <1>1, <1>2 DEF AgreeInv
<1>4. (\A q \in Req : ~Merging(reqs'[q])) => TopicSays(config)'
  <2>1. (\A q \in Req : ~Merging(reqs'[q])) => \A q \in Req : ~Merging(reqs[q])
    OBVIOUS
  <2> QED
    BY <1>1, <2>1 DEF AgreeInv
<1>5. (\A q \in Req : ~Unlogged(reqs'[q])) => LogSays(logs["config"], config)'
  <2>1. (\A q \in Req : ~Unlogged(reqs'[q])) => \A q \in Req : ~Unlogged(reqs[q])
    OBVIOUS
  <2> QED
    BY <1>1, <2>1 DEF AgreeInv
<1>6. ASSUME NEW q \in Req, reqs'[q].form = "config", reqs'[q].pc = "publish"
      PROVE  reqs'[q].out = config
  <2>1. CASE q = r
    BY <1>6, <2>1 DEF Merging
  <2>2. CASE q # r
    <3>1. reqs'[q] = reqs[q]
      BY <2>2
    <3> QED
      BY <1>1, <1>6, <3>1 DEF AgreeInv
  <2> QED
    BY <2>1, <2>2
<1> QED
  BY <1>3, <1>4, <1>5, <1>6

LEMMA AgreeStays ==
  ASSUME Inv, UNCHANGED <<reqs, topic, config, alone>>, LogSays(logs["config"], config) => LogSays(logs["config"], config)'
  PROVE  AgreeInv'
BY DEF Inv, AgreeInv, TopicSays, Active, Merging, Unlogged

\* A request that starts while another one configures ends the quiet time.
LEMMA SubmitAgrees ==
  ASSUME Inv, NEW r \in Req, Submit(r)
  PROVE  AgreeInv'
<1>0. /\ Shape /\ Fits(reqs[r]) /\ reqs[r].pc = "idle" /\ reqs[r].form = "none"
      /\ UNCHANGED <<config, topic, logs>> /\ ReqsInv'
  BY SubmitFits DEF Submit, Inv, ReqsInv, Fits, server
<1>1. /\ TopicSays(config) => TopicSays(config)'
      /\ LogSays(logs["config"], config) => LogSays(logs["config"], config)'
  BY <1>0 DEF TopicSays, LogSays
<1>2. ~Active(reqs[r]) /\ ~Merging(reqs[r]) /\ ~Unlogged(reqs[r])
  BY <1>0 DEF Active, Merging, Unlogged
<1>3. CASE UNCHANGED <<reqs, alone>>
  BY <1>0, <1>1, <1>3, AgreeStays
<1>4. ASSUME NEW form, NEW body, NEW want, Posted(r, form, body, want), form # "config",
             UNCHANGED alone
      PROVE  AgreeInv'
  <2>1. (\A q \in Req \ {r} : reqs'[q] = reqs[q]) /\ reqs'[r].form # "config"
    BY <1>0, <1>4, PostedFacts
  <2>2. ~Active(reqs'[r]) /\ ~Merging(reqs'[r])
    BY <2>1 DEF Active, Merging
  <2> QED
    BY <1>0, <1>1, <1>2, <1>4, <2>1, <2>2, AgreeFrame
<1>5. CASE SubmitConfig(r)
  <2> SUFFICES ASSUME alone' PROVE AgreeInv'
    BY DEF AgreeInv
  <2>1. alone /\ ~Configuring(r)
    BY <1>5 DEF SubmitConfig
  <2>2. /\ \A q \in Req \ {r} : reqs'[q] = reqs[q]
        /\ reqs'[r].form = "config" /\ reqs'[r].pc = "sent"
    BY <1>0, <1>5, PostedFacts DEF SubmitConfig
  <2>3. \A q \in Req \ {r} : ~Active(reqs'[q])
    BY <2>1, <2>2 DEF Configuring, Active
  <2>4. \A q \in Req : ~Merging(reqs'[q]) /\ ~Unlogged(reqs'[q])
    <3>1. ~Merging(reqs'[r]) /\ ~Unlogged(reqs'[r])
      BY <2>2 DEF Merging, Unlogged
    <3>2. \A q \in Req \ {r} : ~Merging(reqs'[q]) /\ ~Unlogged(reqs'[q])
      BY <2>3 DEF Merging, Unlogged, Active
    <3> QED
      BY <3>1, <3>2
  <2>5. \A q \in Req : ~Merging(reqs[q]) /\ ~Unlogged(reqs[q])
    BY <1>2, <2>2, <2>4
  <2>6. TopicSays(config)' /\ LogSays(logs["config"], config)'
    BY <1>1, <2>1, <2>5 DEF Inv, AgreeInv
  <2>7. \A p, q \in Req : Active(reqs'[p]) /\ Active(reqs'[q]) => p = q
    BY <2>3
  <2>8. \A q \in Req : ~(reqs'[q].form = "config" /\ reqs'[q].pc = "publish")
    BY <2>4 DEF Merging
  <2> QED
    BY <2>6, <2>7, <2>8 DEF AgreeInv, Active, Merging, Unlogged
<1>6. CASE SubmitWrite(r) \/ SubmitLoad(r) \/ SubmitFlag(r) \/ SubmitFota(r)
  BY <1>3, <1>4, <1>6 DEF SubmitWrite, SubmitLoad, SubmitFlag, SubmitFota
<1> QED
  BY <1>5, <1>6 DEF Submit

\* api_config merges, publishes and logs, and nobody else writes current_config.
LEMMA ConfigRouteAgrees ==
  ASSUME Inv, NEW r \in Req, ConfigRoute(r), ReqsInv', ServerInv', UNCHANGED alone
  PROVE  AgreeInv'
<1>0. /\ LogInv /\ AgreeInv /\ config \in Config /\ topic \in Seq(Published)
      /\ "config" \in Bucket /\ Fits(reqs[r]) /\ reqs[r].form = "config" /\ reqs'[r].form = "config"
      /\ \A q \in Req \ {r} : reqs'[q] = reqs[q]
  BY ConfigRouteFits DEF Inv, ServerInv, ReqsInv, Bucket
<1>1. ASSUME UNCHANGED server, reqs[r].pc \in {"sent", "merge", "reply"},
             reqs'[r].pc \in {"merge", "publish", "done"},
             reqs[r].pc = "merge" => reqs'[r].pc = "publish",
             reqs'[r].pc = "publish" => reqs'[r].out = config
      PROVE  AgreeInv'
  <2>1. /\ UNCHANGED config /\ (TopicSays(config) => TopicSays(config)')
        /\ LogSays(logs["config"], config) => LogSays(logs["config"], config)'
    BY <1>1 DEF TopicSays, LogSays, server
  <2>2. /\ Active(reqs'[r]) => Active(reqs[r])
        /\ Merging(reqs[r]) => Merging(reqs'[r])
        /\ Unlogged(reqs[r]) => Unlogged(reqs'[r])
        /\ Merging(reqs'[r]) /\ reqs'[r].pc = "publish" => reqs'[r].out = config
    BY <1>0, <1>1 DEF Active, Merging, Unlogged
  <2> QED
    BY <1>0, <2>1, <2>2, AgreeFrame
<1> SUFFICES ASSUME alone, reqs[r].pc \in {"merge", "publish", "log"},
                    reqs'[r].pc \in {"merge", "log", "reply"}
             PROVE  AgreeInv'
  <2>1. CASE ~alone
    BY <2>1 DEF AgreeInv
  <2>2. CASE /\ reqs[r].pc \in {"sent", "merge", "reply"}
             /\ reqs'[r].pc \in {"merge", "publish", "done"}
             /\ reqs[r].pc = "merge" => reqs'[r].pc = "publish"
             /\ reqs'[r].pc = "publish" => reqs'[r].out = config
             /\ UNCHANGED server
    BY <1>1, <2>2
  <2> QED
    BY <2>1, <2>2, ConfigRouteFits
<1>2. Active(reqs[r]) /\ \A q \in Req \ {r} : ~Active(reqs[q]) /\ ~Active(reqs'[q])
  BY <1>0 DEF AgreeInv, Active
<1>3. \A p, q \in Req : Active(reqs'[p]) /\ Active(reqs'[q]) => p = q
  BY <1>2
<1>4. \A q \in Req \ {r} : /\ ~Merging(reqs[q]) /\ ~Unlogged(reqs[q])
                           /\ ~(reqs'[q].form = "config" /\ reqs'[q].pc = "publish")
  BY <1>2 DEF Active, Merging, Unlogged
<1>5. \A q \in Req : ~(reqs'[q].form = "config" /\ reqs'[q].pc = "publish")
  BY <1>4
<1>6. (\A q \in Req : ~Merging(reqs'[q])) => TopicSays(config)'
  <2>1. CASE reqs'[r].pc = "merge"
    BY <1>0, <2>1 DEF Merging
  <2>2. CASE reqs[r].pc = "publish"
    <3> DEFINE m == [form |-> "config", load |-> reqs[r].out, want |-> {}]
    <3>1. UNCHANGED config /\ topic' = Append(topic, m) /\ reqs[r].out = config
      BY <1>0, <2>2, ConfigRouteFits DEF AgreeInv
    <3>2. m \in Published /\ m.form = "config" /\ m.load = config
      BY <1>0, <3>1 DEF Published
    <3> HIDE DEF m
    <3>3. ASSUME NEW c, c = config PROVE TopicSays(c)'
      BY <1>0, <3>1, <3>2, <3>3, TopicFacts
    <3> QED
      BY <3>1, <3>3 DEF TopicSays
  <2>3. CASE reqs[r].pc = "log"
    <3>1. UNCHANGED <<config, topic>>
      BY <2>3, ConfigRouteFits
    <3>2. \A q \in Req : ~Merging(reqs[q])
      BY <1>4, <2>3 DEF Merging
    <3> QED
      BY <1>0, <3>1, <3>2 DEF AgreeInv, TopicSays
  <2> QED
    BY <2>1, <2>2, <2>3, ConfigRouteFits
<1>7. (\A q \in Req : ~Unlogged(reqs'[q])) => LogSays(logs["config"], config)'
  <2>1. CASE reqs'[r].pc \in {"merge", "log"}
    BY <1>0, <2>1 DEF Unlogged
  <2>2. CASE reqs[r].pc = "log"
    <3>1. UNCHANGED config /\ logs' = Pushed("config", config)
      BY <2>2, ConfigRouteFits
    <3>2. LogSays(Pushed("config", config)["config"], config)
      BY <1>0, PushedSays
    <3> QED
      BY <3>1, <3>2 DEF LogSays
  <2> QED
    BY <2>1, <2>2, ConfigRouteFits
<1> QED
  BY <1>3, <1>5, <1>6, <1>7 DEF AgreeInv, Active, Merging, Unlogged

LEMMA PlainRouteAgrees ==
  ASSUME Inv, NEW r \in Req, UNCHANGED alone,
         WriteRoute(r) \/ LoadRoute(r) \/ FlagRoute(r) \/ FotaRoute(r)
  PROVE  AgreeInv'
<1>0. /\ LogInv /\ config \in Config /\ topic \in Seq(Published) /\ Fits(reqs[r])
      /\ ReqsInv' /\ reqs[r].form # "config" /\ reqs'[r].form # "config"
      /\ \A q \in Req \ {r} : reqs'[q] = reqs[q]
  BY PlainRouteFits DEF Inv, ServerInv, ReqsInv
<1>1. UNCHANGED config
  BY DEF WriteRoute, LoadRoute, FlagRoute, FotaRoute, LogNext, server
<1>2. TopicSays(config) => TopicSays(config)'
  <2>1. CASE UNCHANGED topic
    BY <1>1, <2>1 DEF TopicSays
  <2>2. CASE WriteRoute(r) /\ reqs[r].pc = "publish"
    <3> DEFINE m == [form |-> "write", load |-> Payload(reqs[r].body), want |-> reqs[r].want]
    <3>1. topic' = Append(topic, m)
      BY <2>2 DEF WriteRoute, LogNext
    <3>2. m \in Published /\ m.form # "config"
      BY <1>0, <2>2 DEF Fits, Published, WriteRoute
    <3> HIDE DEF m
    <3>3. ASSUME NEW c, c = config, TopicSays(c) PROVE TopicSays(c)'
      BY <1>0, <3>1, <3>2, <3>3, TopicFacts
    <3> QED
      BY <1>1, <3>3 DEF TopicSays
  <2>3. CASE WriteRoute(r) /\ reqs[r].pc # "publish"
    BY <2>1, <2>3 DEF WriteRoute, LogNext, server
  <2>4. CASE LoadRoute(r) \/ FlagRoute(r) \/ FotaRoute(r)
    BY <2>1, <2>4 DEF LoadRoute, FlagRoute, FotaRoute, LogNext, server
  <2> QED
    BY <2>2, <2>3, <2>4
<1>3. LogSays(logs["config"], config) => LogSays(logs["config"], config)'
  <2>1. CASE UNCHANGED logs
    BY <1>1, <2>1 DEF LogSays
  <2>2. ASSUME NEW b \in Bucket, logs' = Pushed(b, Empty)
        PROVE  LogSays(logs["config"], config) => LogSays(logs["config"], config)'
    <3>1. LogSays(logs["config"], config) => LogSays(Pushed(b, Empty)["config"], config)
      BY <1>0, PushedSays
    <3> QED
      BY <1>1, <2>2, <3>1 DEF LogSays
  <2>3. "write" \in Bucket /\ "device" \in Bucket /\ "fota" \in Bucket
    BY DEF Bucket
  <2>4. UNCHANGED logs \/ \E b \in Bucket : logs' = Pushed(b, Empty)
    BY <2>3 DEF WriteRoute, LoadRoute, FlagRoute, FotaRoute, LogNext, server
  <2> QED
    BY <2>1, <2>2, <2>4
<1>4. /\ ~Active(reqs'[r]) /\ ~Merging(reqs'[r])
      /\ ~Merging(reqs[r]) /\ ~Unlogged(reqs[r])
  BY <1>0 DEF Active, Merging, Unlogged
<1> QED
  BY <1>0, <1>1, <1>2, <1>3, <1>4, AgreeFrame

LEMMA RestAgrees ==
  ASSUME Inv, NEW r \in Req, Answered(r) \/ Lost(r)
  PROVE  AgreeInv'
<1>1. /\ ReqsInv' /\ reqs'[r].form = "none" /\ \A q \in Req \ {r} : reqs'[q] = reqs[q]
      /\ reqs[r].pc \in {"sent", "done"}
  BY RestsFits
<1>2. UNCHANGED <<config, topic, logs, alone>>
  BY DEF Answered, Lost, server
<1>3. /\ TopicSays(config) => TopicSays(config)'
      /\ LogSays(logs["config"], config) => LogSays(logs["config"], config)'
  BY <1>2 DEF TopicSays, LogSays
<1>4. /\ ~Active(reqs'[r]) /\ ~Merging(reqs'[r])
      /\ ~Merging(reqs[r]) /\ ~Unlogged(reqs[r])
  BY <1>1 DEF Active, Merging, Unlogged
<1> QED
  BY <1>1, <1>2, <1>3, <1>4, AgreeFrame

LEMMA AgreeSteps ==
  ASSUME Inv, [Next]_vars
  PROVE  AgreeInv'
<1>1. ASSUME UNCHANGED <<reqs, config, topic, alone, logs>> PROVE AgreeInv'
  <2>1. LogSays(logs["config"], config) => LogSays(logs["config"], config)'
    BY <1>1 DEF LogSays
  <2> QED
    BY <1>1, <2>1, AgreeStays
<1>2. ASSUME NEW r \in Req, Route(r) PROVE AgreeInv'
  <2>1. UNCHANGED alone /\ ReqsInv' /\ ServerInv'
    BY <1>2, ReqsSteps, ServerSteps DEF Route
  <2> QED
    BY <1>2, <2>1, PlainRouteAgrees, ConfigRouteAgrees DEF Route
<1>3. CASE Report
  <2>1. PICK b \in Watched : logs' = Pushed(b, Empty)
    BY <1>3 DEF Report
  <2>2. b \in Bucket /\ UNCHANGED <<reqs, config, topic, alone>>
    BY <1>3, FormAssumption DEF Bucket, Report
  <2>3. LogSays(logs["config"], config) => LogSays(Pushed(b, Empty)["config"], config)
    BY <2>2, PushedSays DEF Inv, ServerInv
  <2>4. LogSays(logs["config"], config) => LogSays(logs["config"], config)'
    BY <2>1, <2>2, <2>3 DEF LogSays
  <2> QED
    BY <2>2, <2>4, AgreeStays
<1>4. ASSUME NEW b \in Watched, PollLogs(b) \/ ShowLogs(b) PROVE AgreeInv'
  BY <1>1, <1>4 DEF PollLogs, ShowLogs, server
<1>5. CASE Switch \/ Edit \/ UNCHANGED vars
  BY <1>1, <1>5 DEF Switch, Edit, vars, server
<1> QED
  BY <1>2, <1>3, <1>4, <1>5, SubmitAgrees, RestAgrees DEF Next

-----------------------------------------------------------------------------
(* The theorems.                                                               *)

LEMMA FormsStart == Init => Inv
<1> SUFFICES ASSUME Init PROVE Inv
  OBVIOUS
<1>1. PageInv
  <2>1. write \in [simulate : BOOLEAN, type : ErrorType \cup {"none"}, addr : Typed,
                   functionCode : Typed, exceptionCode : Typed, delayMs : Typed]
    BY DEF Init, Typed, ErrorType
  <2>2. /\ flag = BlankFlag /\ fshown = {"exceptionCode"}
        /\ flag \in [type : ErrorType, sel : {"listed", "CUSTOM"}, custom : Typed, delayMs : Typed]
    BY DEF Init, BlankFlag, FlagWraps, Typed, ErrorType
  <2> QED
    BY <2>1, <2>2 DEF Init, PageInv, BlankFlag, Tab
<1>2. ReqsInv
  <2>1. reqs = [r \in Req |-> Idle] /\ DOMAIN Idle = Fields /\ Idle.pc = "idle" /\ Idle.form = "none"
    BY DEF Init, Idle, Fields
  <2>2. Shape
    BY <2>1 DEF Shape
  <2>3. \A r \in Req : reqs[r] = Idle
    BY <2>1
  <2>4. Fits(Idle)
    BY <2>1 DEF Fits
  <2> QED
    BY <2>2, <2>3, <2>4 DEF ReqsInv
<1>3. LogInv
  <2>1. /\ logs = [b \in Bucket |-> <<>>] /\ panel = [p \in Panel |-> <<>>]
        /\ fetch = [b \in Bucket |-> {}]
    BY DEF Init
  <2>2. <<>> \in Seq(Event) /\ Len(<<>>) <= MaxEvents /\ Numbered(<<>>) /\ InOrder(<<>>)
    BY FormAssumption DEF Numbered, InOrder
  <2> QED
    BY <2>1, <2>2 DEF LogInv
<1>4. ServerInv
  BY FormAssumption DEF Init, ServerInv
<1>5. AgreeInv
  <2>1. \A r \in Req : reqs[r].form = "none"
    BY DEF Init, Idle
  <2>2. topic = <<>> /\ logs["config"] = <<>>
    BY DEF Init, Bucket
  <2> QED
    BY <2>1, <2>2 DEF AgreeInv, Active, TopicSays, LogSays
<1> QED
  BY <1>1, <1>2, <1>3, <1>4, <1>5 DEF Inv

LEMMA FormsStep == Inv /\ [Next]_vars => Inv'
BY PageSteps, ReqsSteps, LogSteps, ServerSteps, AgreeSteps DEF Inv

LEMMA FormsInv == Spec => []Inv
BY FormsStart, FormsStep, PTL DEF Spec

\* Whatever is typed, submitted, lost, logged and polled, every variable keeps its
\* type and no log bucket of the server outgrows MAX_EVENTS (push_log).
THEOREM FormsTypeCorrect == Spec => []TypeOK
<1>1. Inv => TypeOK
  BY DEF Inv, PageInv, LogInv, ServerInv, ShownFor, Optional, TypeOK
<1> QED
  BY <1>1, FormsInv, PTL

\* writeForm.onsubmit and efForm.onsubmit send what is on display: api_write publishes
\* exactly the optional parameters that the write form displayed when it was submitted,
\* and an error flag is built from displayed fields only.
THEOREM SentAsShownAlways == Spec => []SentAsShown
<1>1. Inv => SentAsShown
  <2> SUFFICES ASSUME Inv PROVE SentAsShown
    OBVIOUS
  <2>1. \A i \in 1..Len(topic) : topic[i].form = "write" => topic[i].load = topic[i].want
    BY DEF Inv, ServerInv, WriteShown
  <2>2. \A r \in Req : reqs[r].form = "flag" => reqs[r].body.from \subseteq reqs[r].want
    BY DEF Inv, ReqsInv, Fits
  <2> QED
    BY <2>1, <2>2 DEF SentAsShown
<1> QED
  BY <1>1, FormsInv, PTL

\* api_config changes current_config key by key and copies it three times without a
\* lock; while no two of its requests have overlapped, the copy that was published
\* last and the copy that was logged last are still current_config.
THEOREM ConfigAgreesAlways == Spec => []ConfigAgrees
<1>1. Inv => ConfigAgrees
  <2> SUFFICES ASSUME Inv, alone, \A r \in Req : reqs[r].form = "config" => reqs[r].pc = "done"
               PROVE  TopicSays(config) /\ LogSays(logs["config"], config)
    BY DEF ConfigAgrees, ConfigQuiet, TopicSays, LogSays
  <2>1. \A r \in Req : ~Merging(reqs[r]) /\ ~Unlogged(reqs[r])
    BY DEF Merging, Unlogged
  <2> QED
    BY <2>1 DEF Inv, AgreeInv
<1> QED
  BY <1>1, FormsInv, PTL

\* pollLogs replaces a panel by a copy of a bucket, turned round, and logLine puts
\* lines of the page above it: however polls overtake each other, a panel never has
\* a gap, an event twice, or an older event above a newer one.
THEOREM PanelInOrderAlways == Spec => []PanelInOrder
<1>1. Inv => PanelInOrder
  BY DEF Inv, LogInv, InOrder, PanelInOrder, Panel
<1> QED
  BY <1>1, FormsInv, PTL

=============================================================================
