------------------------------ MODULE Dashboard ------------------------------
(* The charts and the current values of the dashboard (script.js): polls of     *)
(* /api/data that overlap and answer out of order, over the server's            *)
(* data_records.                                                                *)
EXTENDS Integers, Sequences

CONSTANTS
  Poll,         \* places for polls under way (setInterval waits for none)
  Time,         \* what the clock of the device may read, in seconds
  Limit,        \* records a poll asks for (50)
  Window,       \* samples a chart keeps (10)
  Kept,         \* records the server keeps (MAX_RECORDS)
  None,         \* no record
  MaxRecords,   \* bound: records the server receives
  MaxFailures   \* bound: polls that fail

ASSUME TimeAssumption == Time \subseteq Nat
ASSUME NoneAssumption == None \notin [id : Nat, ts : Nat]
ASSUME SizeAssumption ==
  /\ Limit \in Nat \ {0} /\ Window \in Nat \ {0} /\ Kept \in Nat \ {0}
  /\ MaxRecords \in Nat /\ MaxFailures \in Nat

VARIABLES
  records,  \* data_records of the server, oldest first
  polls,    \* per place: the state of its fetch and what it brings
  last,     \* lastRecordTimestamp, in seconds
  chart,    \* the samples of the charts, all ten of them alike
  shown,    \* the record behind the current values
  anim,     \* values that animateNumber is still moving to, oldest call first
  number,   \* what the animated number reads
  drawn,    \* history: how often each record was drawn
  spent     \* failures, counted for the bound

vars == <<records, polls, last, chart, shown, anim, number, drawn, spent>>

Received == Len(drawn)

Resting == [st |-> "idle", recs |-> <<>>]

\* The last n elements of s.
LastOf(s, n) == IF Len(s) <= n THEN s ELSE SubSeq(s, Len(s) - n + 1, Len(s))

-----------------------------------------------------------------------------
\* on_message, extend and trim_records: a record with whatever time the device's
\* clock had.
Arrive ==
  /\ Received < MaxRecords
  /\ \E t \in Time :
       LET r == [id |-> Received + 1, ts |-> t]
       IN records' = LastOf(Append(records, r), Kept)
  /\ drawn' = Append(drawn, 0)
  /\ UNCHANGED <<polls, last, chart, shown, anim, number, spent>>

\* setInterval(pollData): a poll starts whether or not the last one has ended.
Tick(p) ==
  /\ polls[p].st = "idle"
  /\ polls' = [polls EXCEPT ![p].st = "asked"]
  /\ UNCHANGED <<records, last, chart, shown, anim, number, drawn, spent>>

\* Mutant: the oldest records.
AnswerOldest(p) ==
  /\ polls[p].st = "asked"
  /\ polls' = [polls EXCEPT ![p] =
                 [st |-> "answered", recs |-> SelectSeq(records, LAMBDA r : r.id <= Limit)]]
  /\ UNCHANGED <<records, last, chart, shown, anim, number, drawn, spent>>

\* api_data
Answer(p) ==
  /\ polls[p].st = "asked"
  /\ polls' = [polls EXCEPT ![p] = [st |-> "answered", recs |-> LastOf(records, Limit)]]
  /\ UNCHANGED <<records, last, chart, shown, anim, number, drawn, spent>>

\* Mutant: not strictly later.
NewRecordsToo(recs) == {r \in {recs[i] : i \in 1..Len(recs)} : r.ts >= last}

\* The records later than the last one drawn, among those the poll brought.
NewRecords(recs) == {r \in {recs[i] : i \in 1..Len(recs)} : r.ts > last}

\* S in chronological order; equal times keep the order of arrival.
Arrangements(S) == UNION {[1..n -> S] : n \in 1..Limit}

Chronological(S, t) ==
  /\ {t[i] : i \in 1..Len(t)} = S
  /\ \A i, j \in 1..Len(t) : i < j =>
       t[i].ts < t[j].ts \/ (t[i].ts = t[j].ts /\ t[i].id < t[j].id)

\* pollData after its two awaits: nothing new, or every new record on the charts
\* and the latest on the current values.
NothingNew(p) ==
  /\ polls[p].st = "answered" /\ NewRecords(polls[p].recs) = {}
  /\ polls' = [polls EXCEPT ![p] = Resting]
  /\ UNCHANGED <<records, last, chart, shown, anim, number, drawn, spent>>

Draw(p) ==
  /\ polls[p].st = "answered" /\ NewRecords(polls[p].recs) # {}
  /\ \E t \in Arrangements(NewRecords(polls[p].recs)) :
       /\ Chronological(NewRecords(polls[p].recs), t)
       /\ chart' = LastOf(chart \o t, Window)
       /\ last' = t[Len(t)].ts
       /\ shown' = t[Len(t)]
       /\ anim' = Append(anim, t[Len(t)])
       /\ drawn' = [i \in DOMAIN drawn |->
                      IF \E j \in 1..Len(t) : t[j].id = i THEN drawn[i] + 1 ELSE drawn[i]]
  /\ polls' = [polls EXCEPT ![p] = Resting]
  /\ UNCHANGED <<records, number, spent>>

\* A fetch that fails, or a body that is not JSON.
Fail(p) ==
  /\ polls[p].st # "idle" /\ spent < MaxFailures
  /\ spent' = spent + 1
  /\ polls' = [polls EXCEPT ![p] = Resting]
  /\ UNCHANGED <<records, last, chart, shown, anim, number, drawn>>

\* Mutant: the call that began first decides.
FrameOfFirst ==
  /\ anim # <<>>
  /\ \E over \in 0..Len(anim) :
       /\ anim' = SubSeq(anim, over + 1, Len(anim))
       /\ number' = IF over = Len(anim) THEN anim[1] ELSE None
  /\ UNCHANGED <<records, polls, last, chart, shown, drawn, spent>>

\* requestAnimationFrame: the calls under way run in their order.  The calls that
\* began first are over first; the last one in the frame decides what is read.
Frame ==
  /\ anim # <<>>
  /\ \E over \in 0..Len(anim) :
       /\ anim' = SubSeq(anim, over + 1, Len(anim))
       /\ number' = IF over = Len(anim) THEN anim[over] ELSE None
  /\ UNCHANGED <<records, polls, last, chart, shown, drawn, spent>>

-----------------------------------------------------------------------------
Init ==
  /\ records = <<>> /\ polls = [p \in Poll |-> Resting]
  /\ last = 0 /\ chart = <<>> /\ shown = None /\ anim = <<>> /\ number = None
  /\ drawn = <<>> /\ spent = 0

Next ==
  \/ Arrive \/ Frame
  \/ \E p \in Poll : Tick(p) \/ Answer(p) \/ NothingNew(p) \/ Draw(p) \/ Fail(p)

Spec == Init /\ [][Next]_vars

\* Timers, fetches and frames go on; new records and failures need not come.
FairSpec ==
  /\ Spec /\ WF_vars(Frame)
  /\ \A p \in Poll :
       WF_vars(Tick(p)) /\ WF_vars(Answer(p)) /\ WF_vars(NothingNew(p)) /\ WF_vars(Draw(p))

-----------------------------------------------------------------------------
(* Properties.                                                                *)

\* A chart shows no more than Window samples and never runs back in time, and no
\* record is drawn twice, although polls overlap, answer late, out of order and
\* with the latest records again, and the clock of the device may be set back.
ChartIsHistory ==
  /\ Len(chart) <= Window
  /\ \A i, j \in 1..Len(chart) : i < j => chart[i].ts <= chart[j].ts
  /\ \A i \in DOMAIN drawn : drawn[i] <= 1

\* The current values, the end of the charts and lastRecordTimestamp belong to one
\* record, and the animated number rests at it when no animation is left.
ValuesAgree ==
  /\ chart = <<>> <=> shown = None
  /\ chart # <<>> => chart[Len(chart)] = shown /\ last = shown.ts
  /\ anim = <<>> => number = shown

\* What the server serves is drawn in the end, in spite of failed polls, unless the
\* time drawn last is already later or newer records have pushed it out.
Served(t) ==
  \E i \in 1..Len(LastOf(records, Limit)) : LastOf(records, Limit)[i].ts = t
CatchesUp == \A t \in Time : Served(t) ~> (last >= t \/ ~Served(t))

=============================================================================
