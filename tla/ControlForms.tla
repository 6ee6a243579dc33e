---------------------------- MODULE ControlForms ----------------------------
(* The forms of the dashboard (script.js) and the routes behind them (app.py):   *)
(* configuration, write commands, error flags and the buttons of the update tab, *)
(* with several requests under way at once, and the log panels that pollLogs     *)
(* replaces.                                                                     *)
(*                                                                               *)
(* What is typed into a number field is "int", "empty" or "bad" (below the       *)
(* minimum, off the step or no number).  Number("") is 0, an integer.  Address,  *)
(* value and slave address are one field, as the forms treat them alike.         *)
EXTENDS Integers, Sequences, FiniteSets

CONSTANTS
  Req,        \* places for requests under way
  Reg,        \* register numbers (0..9)
  Keys,       \* the numeric parameters of the configuration, in their order
  Value,      \* values of a parameter
  Default,    \* current_config when the server starts
  Empty,      \* a field left blank
  MaxEvents,  \* events a log bucket keeps (MAX_EVENTS)
  Watched,    \* bound: the buckets that are polled, and that the device adds to
  MaxSwitches, MaxEdits, MaxSubmits, MaxPolls, MaxReports, MaxFailures,  \* bounds
  MaxTotal    \* bound: all of these together

Key == {Keys[i] : i \in 1..Len(Keys)}
Config == [params : [Key -> Value], regs : SUBSET Reg]

ASSUME FormAssumption ==
  /\ Empty \notin Value /\ Empty \notin Config /\ Default \in Config
  /\ Keys \in Seq(Key)
  /\ MaxEvents \in Nat \ {0}
  /\ Watched \subseteq {"data", "fota", "config", "write", "device"}
  /\ {MaxSwitches, MaxEdits, MaxSubmits, MaxPolls, MaxReports, MaxFailures,
      MaxTotal} \subseteq Nat

VARIABLES
  tab,     \* the tab on display
  write,   \* fields of the write tab
  wshown,  \* its optional fields on display
  flag,    \* fields of the error flag tab
  fshown,  \* its optional fields on display
  cfg,     \* fields and register boxes of the configuration tab
  config,  \* current_config of the server
  reqs,    \* per place: a request, where its handler is, and its outcome
  topic,   \* payloads published
  logs,    \* buckets of the server: events, oldest first
  panel,   \* lines of the panels, top first
  fetch,   \* log buckets on their way to the page
  alone,   \* history: no two configuration requests have overlapped
  spent    \* what the bounds count

vars == <<tab, write, wshown, flag, fshown, cfg, config, reqs, topic, logs, panel, fetch,
          alone, spent>>
page == <<tab, write, wshown, flag, fshown, cfg>>
server == <<config, topic, logs>>

-----------------------------------------------------------------------------
ErrorType == {"EXCEPTION", "CRC_ERROR", "DELAY"}   \* CORRUPT, PACKET_DROP as CRC_ERROR
Typed == {"int", "empty", "bad"}
Optional == {"functionCode", "exceptionCode", "delayMs"}
Bucket == {"data", "fota", "config", "write", "device"}
Panel == Bucket \cup {"flag"}
Tab == {"dashboard", "fota", "config", "write", "logs", "flag"}

\* A place without a request.  todo: the events a handler has still to log; left: the
\* keys of the patch it has still to merge.
Idle == [pc |-> "idle", form |-> "none", body |-> Empty, want |-> {}, todo |-> <<>>,
         left |-> {}, out |-> Empty]
Total == spent.switches + spent.edits + spent.submits + spent.polls + spent.reports
           + spent.failures
Count(what) == Total < MaxTotal /\ spent' = [spent EXCEPT ![what] = @ + 1]

\* Tab navigation
Switch ==
  /\ spent.switches < MaxSwitches /\ Count("switches")
  /\ \E t \in Tab \ {tab} : tab' = t
  /\ UNCHANGED <<write, wshown, flag, fshown, cfg, server, reqs, panel, fetch, alone>>

-----------------------------------------------------------------------------
(* The write tab.                                                              *)

\* refreshVis
ShownFor(w) ==
  IF ~w.simulate THEN {}
  ELSE {"functionCode", "errorType"}
         \cup (IF w.type = "EXCEPTION" THEN {"exceptionCode"} ELSE {})
         \cup (IF w.type = "DELAY" THEN {"delayMs"} ELSE {})

\* What the browser requires before it calls onsubmit: the required fields are not
\* empty, and no field is bad, displayed or not.
WriteAccepted ==
  /\ write.addr = "int"
  /\ \A f \in Optional : write[f] # "bad" /\ (f \in wshown => write[f] # "empty")

\* The one check of the second writeForm.onsubmit that the browser has not made.
WriteChecked == write.simulate => write.type \in ErrorType

\* Mutant: the type counts although the box is not ticked.
WriteBodyStale ==
  [keys |-> (IF ~write.simulate THEN {} ELSE {"functionCode"})
              \cup (IF write.type # "none" THEN {"functionCode", "errorType"} ELSE {})
              \cup (IF write.type = "EXCEPTION" THEN {"exceptionCode"} ELSE {})
              \cup (IF write.type = "DELAY" THEN {"delayMs"} ELSE {}),
   type |-> write.type]

\* The body it builds: the optional keys, and the error type if there is one.
WriteBody ==
  [keys |-> IF ~write.simulate THEN {}
            ELSE {"functionCode", "errorType"}
                   \cup (IF write.type = "EXCEPTION" THEN {"exceptionCode"} ELSE {})
                   \cup (IF write.type = "DELAY" THEN {"delayMs"} ELSE {}),
   type |-> IF write.simulate THEN write.type ELSE "none"]

\* An edit; the change handlers of the check box and of the type call refreshVis.
EditWrite ==
  /\ tab = "write"
  /\ \/ \E b \in BOOLEAN : write' = [write EXCEPT !.simulate = b]
     \/ "errorType" \in wshown /\ \E t \in ErrorType \cup {"none"} :
          write' = [write EXCEPT !.type = t]
     \/ \E f \in {"addr"} \cup (Optional \cap wshown), v \in Typed :
          write' = [write EXCEPT ![f] = v]
  /\ wshown' = ShownFor(write')
  /\ UNCHANGED <<flag, fshown, cfg>>

-----------------------------------------------------------------------------
(* The error flag tab.                                                         *)

\* refreshEFVisibility leaves the box of the custom code alone; what is in a wrap
\* that is not displayed is not displayed.
FlagWraps(t, shown) ==
  (shown \cap {"custom"}) \cup (IF t = "EXCEPTION" THEN {"exceptionCode"} ELSE {})
    \cup (IF t = "DELAY" THEN {"delayMs"} ELSE {})

\* An edit of the type, of the code, or of a number on display.
EditFlag ==
  /\ tab = "flag"
  /\ \/ \E t \in ErrorType :
          /\ flag' = [flag EXCEPT !.type = t]
          /\ fshown' = FlagWraps(t, fshown)
     \/ /\ "exceptionCode" \in fshown
        /\ \/ flag' = [flag EXCEPT !.sel = "CUSTOM"] /\ fshown' = fshown \cup {"custom"}
           \/ /\ flag' = [flag EXCEPT !.sel = "listed", !.custom = "empty"]
              /\ fshown' = fshown \ {"custom"}
     \/ \E f \in {"custom", "delayMs"} \cap fshown, v \in Typed :
          /\ f = "custom" => "exceptionCode" \in fshown
          /\ flag' = [flag EXCEPT ![f] = v] /\ fshown' = fshown
  /\ UNCHANGED <<write, wshown, cfg>>

\* efClearBtn.onclick
BlankFlag == [type |-> "EXCEPTION", sel |-> "listed", custom |-> "empty", delayMs |-> "int"]
ClearFlag ==
  /\ tab = "flag"
  /\ flag' = BlankFlag /\ fshown' = FlagWraps(BlankFlag.type, fshown)
  /\ UNCHANGED <<write, wshown, cfg>>

FlagAccepted == flag.custom # "bad" /\ flag.delayMs # "bad"

\* efForm.onsubmit: both numbers are always in the body, 0 unless a field gives one.
FlagBody ==
  [type |-> flag.type,
   from |-> (IF flag.type # "EXCEPTION" THEN {}
             ELSE IF flag.sel = "CUSTOM" THEN {"exceptionCode", "custom"}
             ELSE {"exceptionCode"})
              \cup (IF flag.type = "DELAY" THEN {"delayMs"} ELSE {})]

-----------------------------------------------------------------------------
(* The configuration tab.                                                      *)

EditConfig ==
  /\ tab = "config"
  /\ \/ \E k \in Key, v \in Value \cup {Empty} : cfg' = [cfg EXCEPT !.field[k] = v]
     \/ \E i \in Reg : cfg' = [cfg EXCEPT !.regs = IF i \in @ THEN @ \ {i} ELSE @ \cup {i}]
  /\ UNCHANGED <<write, wshown, flag, fshown>>

\* The body of the configuration request: the fields that are filled in, and the
\* boxes (getRegId), which come last in the order of its keys.
Filled == {i \in 1..Len(Keys) : cfg.field[Keys[i]] # Empty}
Patch == [params |-> [i \in Filled |-> cfg.field[Keys[i]]], regs |-> cfg.regs]
Order(patch) == DOMAIN patch.params \cup {Len(Keys) + 1}

\* An edit in one of the forms; Reset also empties the form's own log.
Edit ==
  /\ spent.edits < MaxEdits /\ Count("edits")
  /\ \/ (EditWrite \/ EditFlag \/ EditConfig) /\ panel' = panel
     \/ ClearFlag /\ panel' = [panel EXCEPT !["flag"] = <<>>]
  /\ UNCHANGED <<tab, server, reqs, fetch, alone>> /\ page' # page

-----------------------------------------------------------------------------
(* Requests and what the page writes about them.                               *)

\* A line that the page writes itself; the others stand for events.
Local == [n |-> 0, sent |-> Empty]

\* logLine
LogLine(p, line) == panel' = [panel EXCEPT ![p] = <<line>> \o @]

PanelOf(form) == IF form = "load" THEN "config" ELSE form

Posted(r, form, body, want) ==
  reqs' = [reqs EXCEPT ![r] = [Idle EXCEPT !.pc = "sent", !.form = form, !.body = body,
                                           !.want = want]]

\* Other configuration requests whose handler has not ended.
Configuring(r) ==
  \E q \in Req \ {r} : reqs[q].form = "config" /\ reqs[q].pc \notin {"idle", "done"}

SubmitWrite(r) ==
  /\ tab = "write" /\ WriteAccepted
  /\ IF WriteChecked
     THEN Posted(r, "write", WriteBody, wshown) /\ panel' = panel
     ELSE LogLine("write", Local) /\ reqs' = reqs
  /\ alone' = alone

SubmitConfig(r) ==
  /\ tab = "config"
  /\ Posted(r, "config", Patch, {})
  /\ alone' = (alone /\ ~Configuring(r))
  /\ panel' = panel

\* loadCfgBtn.onclick
SubmitLoad(r) ==
  /\ tab = "config" /\ Posted(r, "load", Empty, {}) /\ UNCHANGED <<panel, alone>>

SubmitFlag(r) ==
  /\ tab = "flag" /\ FlagAccepted
  /\ Posted(r, "flag", FlagBody, fshown)
  /\ LogLine("flag", Local) /\ alone' = alone

\* The buttons of the update tab, by the events their routes log; what the session
\* does with them is in FotaTransfer.
FotaEvents ==
  [upload |-> <<"sending", "manifest_sent">>, reboot |-> <<"sending", "reboot_sent">>,
   pause |-> <<"paused">>, resume |-> <<"resumed">>, abort |-> <<"sending", "abort_sent">>,
   inject |-> <<"fault_armed">>]

SubmitFota(r) ==
  /\ tab = "fota"
  /\ \/ \E op \in DOMAIN FotaEvents \cup {"inject_bad"} :
          Posted(r, "fota", op, {}) /\ panel' = panel
     \/ LogLine("fota", Local) /\ reqs' = reqs   \* no firmware file chosen
  /\ alone' = alone

Submit(r) ==
  /\ reqs[r].pc = "idle" /\ spent.submits < MaxSubmits /\ Count("submits")
  /\ SubmitWrite(r) \/ SubmitConfig(r) \/ SubmitLoad(r) \/ SubmitFlag(r) \/ SubmitFota(r)
  /\ UNCHANGED <<page, server, fetch>>

-----------------------------------------------------------------------------
(* The routes.  Flask runs every request on a thread of its own.               *)

\* Mutant: the bucket is not trimmed.
PushedUntrimmed(b, sent) ==
  LET n == IF logs[b] = <<>> THEN 1 ELSE logs[b][Len(logs[b])].n + 1
  IN [logs EXCEPT ![b] = Append(@, [n |-> n, sent |-> sent])]

\* push_log: events are numbered per bucket; of their content only the configuration
\* that was sent matters.
Pushed(b, sent) ==
  LET n == IF logs[b] = <<>> THEN 1 ELSE logs[b][Len(logs[b])].n + 1
      l == Append(logs[b], [n |-> n, sent |-> sent])
  IN [logs EXCEPT ![b] = IF Len(l) > MaxEvents THEN Tail(l) ELSE l]

Go(r, pc, todo) == reqs' = [reqs EXCEPT ![r].pc = pc, ![r].todo = todo]
Finished(r, out) == reqs' = [reqs EXCEPT ![r].pc = "done", ![r].out = out]

\* The events a handler still has to log, one at a time.
LogNext(r, b) ==
  /\ reqs[r].pc = "log"
  /\ logs' = Pushed(b, Empty)
  /\ IF Len(reqs[r].todo) = 1 THEN Finished(r, "ok") ELSE Go(r, "log", Tail(reqs[r].todo))
  /\ UNCHANGED <<config, topic>>

\* api_write: what the checks let through.
WriteValid(body) ==
  /\ "errorType" \in body.keys => body.type \in ErrorType /\ "functionCode" \in body.keys
  /\ body.type = "EXCEPTION" => "exceptionCode" \in body.keys
  /\ body.type = "DELAY" => "delayMs" \in body.keys

\* The payload is built anew, with the keys that belong to the error type only.
Payload(body) ==
  (body.keys \cap {"functionCode", "errorType"})
    \cup (IF body.type = "EXCEPTION" THEN {"exceptionCode"} ELSE {})
    \cup (IF body.type = "DELAY" THEN {"delayMs"} ELSE {})

WriteRoute(r) ==
  /\ reqs[r].form = "write"
  /\ \/ /\ reqs[r].pc = "sent"
        /\ IF WriteValid(reqs[r].body) THEN Go(r, "publish", <<>>) ELSE Finished(r, "refused")
        /\ UNCHANGED server
     \/ /\ reqs[r].pc = "publish"
        /\ topic' = Append(topic, [form |-> "write", load |-> Payload(reqs[r].body),
                                   want |-> reqs[r].want])
        /\ Go(r, "log", <<"sending", "sent">>) /\ UNCHANGED <<config, logs>>
     \/ LogNext(r, "write")

\* api_config: the patch is merged key by key; the copies that are published,
\* logged and answered are taken one after the other.
Merged(patch, i) ==
  IF i \in DOMAIN patch.params THEN [config EXCEPT !.params[Keys[i]] = patch.params[i]]
  ELSE [config EXCEPT !.regs = patch.regs]

\* Mutant: the parameters of the patch are left out of the copy.
CopyOfDefaults == [Default EXCEPT !.regs = config.regs]
Copy == config

ConfigRoute(r) ==
  /\ reqs[r].form = "config"
  /\ \/ /\ reqs[r].pc = "sent"
        /\ reqs' = [reqs EXCEPT ![r].pc = "merge", ![r].left = Order(reqs[r].body)]
        /\ UNCHANGED server
     \/ /\ reqs[r].pc = "merge"
        /\ \E i \in reqs[r].left :
             /\ \A j \in reqs[r].left : i <= j
             /\ config' = Merged(reqs[r].body, i)
             /\ reqs' = [reqs EXCEPT ![r].left = @ \ {i}]
        /\ UNCHANGED <<topic, logs>>
     \/ /\ reqs[r].pc = "merge" /\ reqs[r].left = {}
        /\ reqs' = [reqs EXCEPT ![r].pc = "publish", ![r].out = Copy]
        /\ UNCHANGED server
     \/ /\ reqs[r].pc = "publish"
        /\ topic' = Append(topic, [form |-> "config", load |-> reqs[r].out, want |-> {}])
        /\ Go(r, "log", <<>>) /\ UNCHANGED <<config, logs>>
     \/ /\ reqs[r].pc = "log"
        /\ logs' = Pushed("config", config) /\ Go(r, "reply", <<>>)
        /\ UNCHANGED <<config, topic>>
     \/ reqs[r].pc = "reply" /\ Finished(r, config) /\ UNCHANGED server

LoadRoute(r) ==
  reqs[r].form = "load" /\ reqs[r].pc = "sent" /\ Finished(r, config) /\ UNCHANGED server

\* api_error_flag_add: the service behind it accepts the flag or not.
FlagRoute(r) ==
  /\ reqs[r].form = "flag"
  /\ \/ /\ reqs[r].pc = "sent"
        /\ Go(r, "log", <<"forwarded">>) \/ Finished(r, "upstream_error")
        /\ UNCHANGED server
     \/ LogNext(r, "device")

FotaRoute(r) ==
  /\ reqs[r].form = "fota"
  /\ \/ /\ reqs[r].pc = "sent"
        /\ IF reqs[r].body = "inject_bad" THEN Finished(r, "refused")
           ELSE Go(r, "log", FotaEvents[reqs[r].body])
        /\ UNCHANGED server
     \/ LogNext(r, "fota")

Route(r) ==
  /\ WriteRoute(r) \/ ConfigRoute(r) \/ LoadRoute(r) \/ FlagRoute(r) \/ FotaRoute(r)
  /\ UNCHANGED <<page, panel, fetch, alone, spent>>

\* What the MQTT thread logs about a message of the device.
Report ==
  /\ spent.reports < MaxReports /\ Count("reports")
  /\ \E b \in Watched : logs' = Pushed(b, Empty)
  /\ UNCHANGED <<page, config, topic, reqs, panel, fetch, alone>>

-----------------------------------------------------------------------------
(* Answers.                                                                    *)

\* Loading fills the fields and leaves the boxes.
Loaded(c) == [cfg EXCEPT !.field = c.params]

Answered(r) ==
  /\ reqs[r].pc = "done"
  /\ LogLine(PanelOf(reqs[r].form), Local)
  /\ cfg' = IF reqs[r].form = "load" THEN Loaded(reqs[r].out) ELSE cfg
  /\ reqs' = [reqs EXCEPT ![r] = Idle]
  /\ UNCHANGED <<tab, write, wshown, flag, fshown, server, fetch, alone, spent>>

\* The request or its answer is lost; the route may have done all its work.  Load,
\* reboot, pause, resume and abort do not catch it.
Lost(r) ==
  /\ reqs[r].pc \in {"sent", "done"}
  /\ spent.failures < MaxFailures /\ Count("failures")
  /\ IF reqs[r].form \in {"write", "config", "flag"}
        \/ reqs[r].body \in {"upload", "inject", "inject_bad"}
     THEN LogLine(PanelOf(reqs[r].form), Local)
     ELSE panel' = panel
  /\ reqs' = [reqs EXCEPT ![r] = Idle]
  /\ UNCHANGED <<page, server, fetch, alone>>

\* pollLogs: api_logs copies a bucket, and when the copy arrives it replaces
\* everything in the panel.  Polls may overtake each other, and may fail.
PollLogs(b) ==
  /\ spent.polls < MaxPolls /\ Count("polls")
  /\ fetch' = [fetch EXCEPT ![b] = @ \cup {logs[b]}]
  /\ UNCHANGED <<page, server, reqs, panel, alone>>

Newest(events) == [i \in 1..Len(events) |-> events[Len(events) + 1 - i]]

\* Mutant: the panel is not emptied first.
ShowLogsKept(b) ==
  /\ \E events \in fetch[b] :
       /\ fetch' = [fetch EXCEPT ![b] = @ \ {events}]
       /\ panel' = [panel EXCEPT ![b] = Newest(events) \o @]
  /\ UNCHANGED <<page, server, reqs, alone, spent>>

ShowLogs(b) ==
  /\ \E events \in fetch[b] :
       /\ fetch' = [fetch EXCEPT ![b] = @ \ {events}]
       /\ panel' = [panel EXCEPT ![b] = Newest(events)]
  /\ UNCHANGED <<page, server, reqs, alone, spent>>

-----------------------------------------------------------------------------
\* The page is opened when the server has just started.
Init ==
  /\ tab = "dashboard"
  /\ write = [simulate |-> FALSE, type |-> "none", addr |-> "empty", functionCode |-> "int",
              exceptionCode |-> "int", delayMs |-> "int"]
  /\ wshown = ShownFor(write)
  /\ flag = BlankFlag /\ fshown = FlagWraps(BlankFlag.type, {})
  /\ cfg = [field |-> [k \in Key |-> Empty], regs |-> Reg]
  /\ config = Default /\ reqs = [r \in Req |-> Idle] /\ topic = <<>>
  /\ logs = [b \in Bucket |-> <<>>] /\ panel = [p \in Panel |-> <<>>]
  /\ fetch = [b \in Bucket |-> {}] /\ alone = TRUE
  /\ spent = [switches |-> 0, edits |-> 0, submits |-> 0, polls |-> 0, reports |-> 0, failures |-> 0]

Next ==
  \/ Switch \/ Edit \/ Report
  \/ \E r \in Req : Submit(r) \/ Route(r) \/ Answered(r) \/ Lost(r)
  \/ \E b \in Watched : PollLogs(b) \/ ShowLogs(b)

Spec == Init /\ [][Next]_vars

-----------------------------------------------------------------------------
(* Properties.                                                                *)

\* Every variable has its type, and no bucket exceeds MaxEvents.
TypeOK ==
  /\ tab \in Tab
  /\ write \in [simulate : BOOLEAN, type : ErrorType \cup {"none"}, addr : Typed,
                functionCode : Typed, exceptionCode : Typed, delayMs : Typed]
  /\ wshown \subseteq Optional \cup {"errorType"}
  /\ flag \in [type : ErrorType, sel : {"listed", "CUSTOM"}, custom : Typed, delayMs : Typed]
  /\ fshown \subseteq {"exceptionCode", "custom", "delayMs"}
  /\ cfg \in [field : [Key -> Value \cup {Empty}], regs : SUBSET Reg]
  /\ config \in Config /\ alone \in BOOLEAN
  /\ \A b \in Bucket : Len(logs[b]) <= MaxEvents

\* A form is sent as it was on display.  A write command goes out with exactly the
\* optional parameters displayed when it was submitted: the device takes its
\* emulation branch if and only if the box was ticked, whatever had been chosen
\* before it was unticked.  An error flag is built from fields on display only:
\* neither Reset nor a change of the type makes a field count that is hidden.
SentAsShown ==
  /\ \A i \in 1..Len(topic) : topic[i].form = "write" => topic[i].load = topic[i].want
  /\ \A r \in Req : reqs[r].form = "flag" => reqs[r].body.from \subseteq reqs[r].want

\* While no two configuration requests have overlapped, what was published last,
\* what was logged last and what the server answers are one configuration.
ConfigQuiet == alone /\ \A r \in Req : reqs[r].form = "config" => reqs[r].pc = "done"
ConfigAgrees ==
  ConfigQuiet =>
    /\ \A i \in 1..Len(topic) :
         (topic[i].form = "config" /\ \A j \in (i + 1)..Len(topic) : topic[j].form # "config")
           => topic[i].load = config
    /\ \A i \in 1..Len(logs["config"]) :
         (logs["config"][i].sent # Empty
            /\ \A j \in (i + 1)..Len(logs["config"]) : logs["config"][j].sent = Empty)
           => logs["config"][i].sent = config

\* A panel shows one state of its bucket, newest event first, without a gap and
\* without an event twice, when answers of polls overtake each other and replace what
\* is drawn; lines of the page itself stand above the events only.
PanelInOrder ==
  \A b \in Bucket : \A i \in 2..Len(panel[b]) :
    \/ panel[b][i - 1].n = 0
    \/ panel[b][i].n # 0 /\ panel[b][i - 1].n = panel[b][i].n + 1

=============================================================================
