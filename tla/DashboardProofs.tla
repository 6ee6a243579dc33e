---------------------------- MODULE DashboardProofs ----------------------------
(***************************************************************************)
(* The charts and the current values of the dashboard, for every number of *)
(* overlapping polls, every clock of the device and every length of the    *)
(* charts: what is drawn is in order, nothing is drawn twice, and charts,  *)
(* values and animation agree.                                             *)
(***************************************************************************)
EXTENDS Dashboard, TLAPS

-----------------------------------------------------------------------------
(* Sequences.                                                                  *)

LEMMA AppendFacts ==
  ASSUME NEW S, NEW s \in Seq(S), NEW e \in S
  PROVE  /\ Append(s, e) \in Seq(S) /\ Len(s) \in Nat /\ Len(Append(s, e)) = Len(s) + 1
         /\ Append(s, e)[Len(s) + 1] = e
         /\ \A i \in 1..Len(s) : Append(s, e)[i] = s[i]
  OBVIOUS

LEMMA ConcatFacts ==
  ASSUME NEW S, NEW s \in Seq(S), NEW t \in Seq(S)
  PROVE  /\ s \o t \in Seq(S) /\ Len(s) \in Nat /\ Len(t) \in Nat
         /\ Len(s \o t) = Len(s) + Len(t)
         /\ \A i \in 1..Len(s) : (s \o t)[i] = s[i]
         /\ \A i \in 1..Len(t) : (s \o t)[Len(s) + i] = t[i]
  OBVIOUS

LEMMA SubSeqFacts ==
  ASSUME NEW S, NEW s \in Seq(S), NEW d \in Nat, d <= Len(s)
  PROVE  /\ SubSeq(s, d + 1, Len(s)) \in Seq(S) /\ Len(SubSeq(s, d + 1, Len(s))) = Len(s) - d
         /\ \A i \in 1..(Len(s) - d) : SubSeq(s, d + 1, Len(s))[i] = s[i + d]
<1>1. Len(s) \in Nat /\ \A i \in 1..Len(s) : s[i] \in S
  OBVIOUS
<1> DEFINE l == SubSeq(s, d + 1, Len(s))
<1>2. Len(l) = Len(s) - d
  BY <1>1
<1>3. \A i \in 1..(Len(s) - d) : l[i] = s[i + d]
  BY <1>1
<1>4. l \in Seq(S)
  BY <1>1
<1> QED
  BY <1>2, <1>3, <1>4

\* The last n elements keep their order, and the last of all is among them.
LEMMA LastOfFacts ==
  ASSUME NEW S, NEW s \in Seq(S), NEW n \in Nat
  PROVE  /\ LastOf(s, n) \in Seq(S) /\ Len(LastOf(s, n)) <= n
         /\ n # 0 => (LastOf(s, n) = <<>> <=> s = <<>>)
         /\ \E d \in Nat : /\ Len(LastOf(s, n)) + d = Len(s)
                           /\ \A i \in 1..Len(LastOf(s, n)) : LastOf(s, n)[i] = s[i + d]
<1>1. Len(s) \in Nat
  OBVIOUS
<1>2. CASE Len(s) <= n
  <2>1. LastOf(s, n) = s
    BY <1>2 DEF LastOf
  <2>2. 0 \in Nat /\ \A i \in 1..Len(s) : s[i] = s[i + 0]
    BY <1>1
  <2> QED
    BY <1>1, <1>2, <2>1, <2>2
<1>3. CASE ~(Len(s) <= n)
  <2> DEFINE d == Len(s) - n
             l == SubSeq(s, d + 1, Len(s))
  <2>1. LastOf(s, n) = l
    BY <1>1, <1>3 DEF LastOf
  <2>2. d \in Nat /\ d > 0 /\ d < Len(s) + 1 /\ n + d = Len(s)
    BY <1>1, <1>3
  <2> HIDE DEF d
  <2>3. /\ l \in Seq(S) /\ Len(l) = Len(s) - d
        /\ \A i \in 1..Len(l) : l[i] = s[i + d]
    BY <1>1, <2>2, SubSeqFacts
  <2> HIDE DEF l
  <2>4. n # 0 => l # <<>> /\ s # <<>>
    <3>1. n # 0 => Len(l) > 0 /\ Len(s) > 0
      BY <1>1, <2>2, <2>3
    <3> QED
      BY <3>1
  <2>5. \E k \in Nat : Len(l) + k = Len(s) /\ \A i \in 1..Len(l) : l[i] = s[i + k]
    <3>1. d \in Nat /\ Len(l) + d = Len(s)
      BY <1>1, <2>2, <2>3
    <3> QED
      BY <2>3, <3>1
  <2>6. Len(l) <= n
    BY <1>1, <2>2, <2>3
  <2> QED
    BY <2>1, <2>3, <2>4, <2>5, <2>6
<1> QED
  BY <1>1, <1>2, <1>3

-----------------------------------------------------------------------------
(* The invariant.                                                              *)

Record == [id : Nat, ts : Nat]

TypeInv ==
  /\ records \in Seq(Record)
  /\ polls \in [Poll -> [st : {"idle", "asked", "answered"}, recs : Seq(Record)]]
  /\ last \in Nat /\ drawn \in Seq(Nat)
  /\ chart \in Seq(Record) /\ anim \in Seq(Record)
  /\ shown \in Record \cup {None} /\ number \in Record \cup {None}

Has(s, r) == \E i \in 1..Len(s) : s[i] = r

\* The record is on the server, or a poll under way brings it.
Known(r) == Has(records, r) \/ \E p \in Poll : Has(polls[p].recs, r)

\* The copies of one record are alike, and one that was drawn is not new any more.
KnownInv ==
  /\ \A r \in Record : Known(r) => r.id \in 1..Len(drawn) /\ (drawn[r.id] > 0 => r.ts <= last)
  /\ \A r, q \in Record : Known(r) /\ Known(q) /\ r.id = q.id => r = q

\* Of the animations under way the one that began last goes to the record on display.
AnimInv == anim # <<>> => anim[Len(anim)] = shown

PageInv == TypeInv /\ KnownInv /\ ChartIsHistory /\ ValuesAgree /\ AnimInv

LEMMA PageStarts ==
  ASSUME Init
  PROVE  PageInv
<1>1. TypeInv
  BY DEF Init, TypeInv, Resting
<1>2. \A r : ~Known(r)
  BY DEF Init, Known, Has, Resting
<1>3. ChartIsHistory /\ ValuesAgree /\ AnimInv
  BY SizeAssumption DEF Init, ChartIsHistory, ValuesAgree, AnimInv
<1> QED
  BY <1>1, <1>2, <1>3 DEF PageInv, KnownInv

-----------------------------------------------------------------------------
(* Records arrive, are asked for and answered.                                 *)

LEMMA PageArrive ==
  ASSUME PageInv, Arrive
  PROVE  PageInv'
<1>1. /\ UNCHANGED <<polls, last, chart, shown, anim, number>>
      /\ drawn' = Append(drawn, 0) /\ drawn \in Seq(Nat) /\ records \in Seq(Record)
  BY DEF Arrive, PageInv, TypeInv
<1>2. PICK t \in Time : records' = LastOf(Append(records, [id |-> Len(drawn) + 1, ts |-> t]), Kept)
  BY DEF Arrive, Received
<1> DEFINE new == [id |-> Len(drawn) + 1, ts |-> t]
<1>3. /\ drawn' \in Seq(Nat) /\ Len(drawn) \in Nat /\ Len(drawn') = Len(drawn) + 1
      /\ drawn'[Len(drawn) + 1] = 0 /\ \A i \in 1..Len(drawn) : drawn'[i] = drawn[i]
  BY <1>1, AppendFacts
<1>4. new \in Record /\ new.id = Len(drawn) + 1
  BY <1>3, TimeAssumption DEF Record
<1> HIDE DEF new
<1> DEFINE all == Append(records, new)
<1>5. /\ all \in Seq(Record) /\ Len(records) \in Nat /\ Len(all) = Len(records) + 1
      /\ all[Len(records) + 1] = new
      /\ \A i \in 1..Len(records) : all[i] = records[i]
  BY <1>1, <1>4, AppendFacts
<1>6. records' = LastOf(all, Kept)
  BY <1>2 DEF new
<1> HIDE DEF all
<1>7. Kept \in Nat
  BY SizeAssumption
<1>8. records' \in Seq(Record)
  BY <1>5, <1>6, <1>7, LastOfFacts
<1>9. ASSUME NEW r, Has(records', r)
      PROVE  r = new \/ Has(records, r)
  <2>1. PICK i \in 1..Len(records') : records'[i] = r
    BY <1>9 DEF Has
  <2>2. PICK d \in Nat : /\ Len(records') + d = Len(records) + 1
                         /\ \A j \in 1..Len(records') : records'[j] = all[j + d]
    <3>1. all \in Seq(Record)
      BY <1>5
    <3>2. \E d \in Nat : /\ Len(LastOf(all, Kept)) + d = Len(all)
                         /\ \A j \in 1..Len(LastOf(all, Kept)) : LastOf(all, Kept)[j] = all[j + d]
      BY <1>7, <3>1, LastOfFacts
    <3> QED
      BY <1>5, <1>6, <3>2
  <2>3. i + d \in 1..(Len(records) + 1) /\ all[i + d] = r
    BY <1>5, <1>8, <2>1, <2>2
  <2>4. CASE i + d = Len(records) + 1
    BY <1>5, <2>3, <2>4
  <2>5. CASE i + d # Len(records) + 1
    <3>1. i + d \in 1..Len(records)
      BY <1>5, <2>3, <2>5
    <3> QED
      BY <1>5, <2>3, <3>1 DEF Has
  <2> QED
    BY <2>4, <2>5
<1>10. ASSUME NEW r \in Record, Known(r)'
       PROVE  r = new \/ Known(r)
  BY <1>1, <1>9, <1>10 DEF Known
<1>11. TypeInv'
  BY <1>1, <1>3, <1>8 DEF PageInv, TypeInv
<1>12. KnownInv'
  <2>1. ASSUME NEW r \in Record, Known(r)'
        PROVE  r.id \in 1..Len(drawn') /\ (drawn'[r.id] > 0 => r.ts <= last')
    <3>1. CASE r = new
      BY <1>3, <1>4, <3>1
    <3>2. CASE Known(r)
      <4>1. r.id \in 1..Len(drawn) /\ (drawn[r.id] > 0 => r.ts <= last)
        BY <3>2 DEF PageInv, KnownInv
      <4> QED
        BY <1>1, <1>3, <4>1
    <3> QED
      BY <1>10, <2>1, <3>1, <3>2
  <2>2. ASSUME NEW r \in Record, NEW q \in Record, Known(r)', Known(q)', r.id = q.id
        PROVE  r = q
    <3>1. \A x \in Record : Known(x) => x.id \in 1..Len(drawn)
      BY DEF PageInv, KnownInv
    <3>2. (r = new \/ Known(r)) /\ (q = new \/ Known(q))
      BY <1>10, <2>2
    <3>3. CASE Known(r) /\ Known(q)
      BY <2>2, <3>3 DEF PageInv, KnownInv
    <3>4. CASE r = new \/ q = new
      BY <1>3, <1>4, <2>2, <3>1, <3>2, <3>4
    <3> QED
      BY <3>2, <3>3, <3>4
  <2> QED
    BY <2>1, <2>2 DEF KnownInv
<1>13. ChartIsHistory'
  <2>1. ASSUME NEW i \in DOMAIN drawn'
        PROVE  drawn'[i] <= 1
    <3>1. i \in 1..(Len(drawn) + 1)
      BY <1>3
    <3>2. CASE i = Len(drawn) + 1
      BY <1>3, <3>2
    <3>3. CASE i # Len(drawn) + 1
      <4>1. i \in 1..Len(drawn) /\ i \in DOMAIN drawn
        BY <1>1, <1>3, <3>1, <3>3
      <4> QED
        BY <1>3, <4>1 DEF PageInv, ChartIsHistory
    <3> QED
      BY <3>2, <3>3
  <2> QED
    BY <1>1, <2>1 DEF PageInv, ChartIsHistory
<1> QED
  BY <1>1, <1>11, <1>12, <1>13 DEF PageInv, ValuesAgree, AnimInv

\* A step that changes the polls only, and brings no record that is not known.
LEMMA PagePolls ==
  ASSUME PageInv, UNCHANGED <<records, last, chart, shown, anim, number, drawn>>,
         NEW p \in Poll, NEW st \in {"idle", "asked", "answered"}, NEW recs \in Seq(Record),
         \A r : Has(recs, r) => Known(r),
         polls' = [polls EXCEPT ![p] = [st |-> st, recs |-> recs]]
  PROVE  PageInv'
<1>1. polls' \in [Poll -> [st : {"idle", "asked", "answered"}, recs : Seq(Record)]]
  BY DEF PageInv, TypeInv
<1>2. TypeInv'
  BY <1>1 DEF PageInv, TypeInv
<1>3. ASSUME NEW r, Known(r)'
      PROVE  Known(r)
  <2>1. CASE Has(records', r)
    BY <2>1 DEF Known, Has
  <2>2. ASSUME NEW q \in Poll, Has(polls'[q].recs, r)
        PROVE  Known(r)
    <3>1. polls'[q].recs = IF q = p THEN recs ELSE polls[q].recs
      BY DEF PageInv, TypeInv
    <3> QED
      BY <2>2, <3>1 DEF Known
  <2> QED
    BY <1>3, <2>1, <2>2 DEF Known
<1>4. KnownInv'
  BY <1>3 DEF PageInv, KnownInv
<1> QED
  BY <1>2, <1>4 DEF PageInv, ChartIsHistory, ValuesAgree, AnimInv

LEMMA PageAsked ==
  ASSUME PageInv, NEW p \in Poll, Tick(p) \/ Answer(p) \/ NothingNew(p) \/ Fail(p)
  PROVE  PageInv'
<1>1. UNCHANGED <<records, last, chart, shown, anim, number, drawn>>
  BY DEF Tick, Answer, NothingNew, Fail
<1>2. polls[p].recs \in Seq(Record) /\ records \in Seq(Record) /\ Limit \in Nat
  BY SizeAssumption DEF PageInv, TypeInv
<1>3. CASE Tick(p)
  <2>1. polls' = [polls EXCEPT ![p] = [st |-> "asked", recs |-> polls[p].recs]]
    <3>1. [polls[p] EXCEPT !.st = "asked"] = [st |-> "asked", recs |-> polls[p].recs]
      BY DEF PageInv, TypeInv
    <3>2. polls' = [polls EXCEPT ![p] = [polls[p] EXCEPT !.st = "asked"]]
      BY <1>3 DEF Tick
    <3> QED
      BY <3>1, <3>2
  <2>2. \A r : Has(polls[p].recs, r) => Known(r)
    BY DEF Known
  <2> QED
    BY <1>1, <1>2, <2>1, <2>2, PagePolls
<1>4. CASE Answer(p)
  <2> DEFINE recs == LastOf(records, Limit)
  <2>1. polls' = [polls EXCEPT ![p] = [st |-> "answered", recs |-> recs]]
    BY <1>4 DEF Answer
  <2>2. recs \in Seq(Record)
    BY <1>2, LastOfFacts
  <2>3. PICK d \in Nat : /\ Len(recs) + d = Len(records)
                         /\ \A i \in 1..Len(recs) : recs[i] = records[i + d]
    BY <1>2, LastOfFacts
  <2> HIDE DEF recs
  <2>4. ASSUME NEW r, Has(recs, r)
        PROVE  Known(r)
    <3>1. PICK i \in 1..Len(recs) : recs[i] = r
      BY <2>4 DEF Has
    <3>2. i + d \in 1..Len(records) /\ records[i + d] = r
      BY <1>2, <2>2, <2>3, <3>1
    <3> QED
      BY <3>2 DEF Known, Has
  <2> QED
    BY <1>1, <2>1, <2>2, <2>4, PagePolls
<1>5. CASE NothingNew(p) \/ Fail(p)
  <2>1. polls' = [polls EXCEPT ![p] = [st |-> "idle", recs |-> <<>>]]
    BY <1>5 DEF NothingNew, Fail, Resting
  <2>2. <<>> \in Seq(Record) /\ \A r : ~Has(<<>>, r)
    BY DEF Has
  <2> QED
    BY <1>1, <2>1, <2>2, PagePolls
<1> QED
  BY <1>3, <1>4, <1>5

-----------------------------------------------------------------------------
(* New records are drawn, and animations run.                                  *)

LEMMA PageDraw ==
  ASSUME PageInv, NEW p \in Poll, Draw(p)
  PROVE  PageInv'
<1> DEFINE fresh == NewRecords(polls[p].recs)
<1>1. PICK t \in Arrangements(fresh) :
        /\ Chronological(fresh, t)
        /\ chart' = LastOf(chart \o t, Window) /\ last' = t[Len(t)].ts /\ shown' = t[Len(t)]
        /\ anim' = Append(anim, t[Len(t)])
        /\ drawn' = [i \in DOMAIN drawn |->
                       IF \E j \in 1..Len(t) : t[j].id = i THEN drawn[i] + 1 ELSE drawn[i]]
  BY DEF Draw
<1>2. UNCHANGED <<records, number>> /\ polls' = [polls EXCEPT ![p] = Resting]
  BY DEF Draw
<1>3. /\ chart \in Seq(Record) /\ anim \in Seq(Record) /\ drawn \in Seq(Nat) /\ last \in Nat
      /\ polls[p].recs \in Seq(Record) /\ polls \in [Poll -> [st : {"idle", "asked", "answered"}, recs : Seq(Record)]]
  BY DEF PageInv, TypeInv
<1>4. \A r \in fresh : r \in Record /\ Known(r) /\ r.ts > last
  <2>1. ASSUME NEW r \in fresh
        PROVE  r \in Record /\ Has(polls[p].recs, r) /\ r.ts > last
    <3>1. PICK i \in 1..Len(polls[p].recs) : r = polls[p].recs[i] /\ r.ts > last
      BY DEF NewRecords
    <3> QED
      BY <1>3, <3>1 DEF Has
  <2> QED
    BY <2>1 DEF Known
<1> HIDE DEF fresh
<1>5. PICK n \in 1..Limit : t \in [1..n -> fresh]
  BY DEF Arrangements
<1>6. n \in Nat /\ n >= 1
  BY SizeAssumption
<1>7. t \in [1..n -> Record]
  BY <1>4, <1>5
<1>8. t \in Seq(Record) /\ Len(t) = n
  BY <1>6, <1>7
<1> DEFINE end == t[n]
<1>9. /\ end \in fresh /\ end \in Record /\ end.ts \in Nat /\ end.ts > last
      /\ \A i \in 1..n : t[i] \in fresh /\ t[i] \in Record /\ t[i].ts \in Nat /\ t[i].ts > last
      /\ \A i \in 1..n : t[i].ts <= end.ts
  <2>1. \A i \in 1..n : t[i] \in fresh /\ t[i] \in Record /\ t[i].ts \in Nat /\ t[i].ts > last
    BY <1>4, <1>5 DEF Record
  <2>2. \A i \in 1..n : i = n \/ t[i].ts <= t[n].ts
    BY <1>1, <1>6, <1>8, <2>1 DEF Chronological
  <2> QED
    BY <1>6, <2>1, <2>2
<1>10. last' = end.ts /\ shown' = end /\ anim' = Append(anim, end)
  BY <1>1, <1>8
<1>11. fresh = {t[i] : i \in 1..n}
  BY <1>1, <1>8 DEF Chronological
<1>12. \A i, j \in 1..n : i < j => t[i].ts <= t[j].ts
  <2>1. \A i, j \in 1..n : i < j =>
           t[i].ts < t[j].ts \/ (t[i].ts = t[j].ts /\ t[i].id < t[j].id)
    BY <1>1, <1>8 DEF Chronological
  <2>2. \A i \in 1..n : t[i].ts \in Nat
    BY <1>9
  <2> QED
    BY <2>1, <2>2
<1> HIDE DEF end
<1>13. last' \in Nat /\ last' > last
  BY <1>3, <1>9, <1>10
<1> DEFINE more == chart \o t
<1>14. /\ more \in Seq(Record) /\ Len(chart) \in Nat /\ Len(more) = Len(chart) + n
       /\ \A i \in 1..Len(chart) : more[i] = chart[i]
       /\ \A i \in 1..n : more[Len(chart) + i] = t[i]
  <2>1. chart \in Seq(Record) /\ t \in Seq(Record)
    BY <1>3, <1>8
  <2>2. /\ more \in Seq(Record) /\ Len(chart) \in Nat /\ Len(more) = Len(chart) + Len(t)
        /\ \A i \in 1..Len(chart) : more[i] = chart[i]
        /\ \A i \in 1..Len(t) : more[Len(chart) + i] = t[i]
    BY <2>1, ConcatFacts
  <2> QED
    BY <1>8, <2>2
<1>15. chart' = LastOf(more, Window)
  BY <1>1
<1> HIDE DEF more
<1>16. Window \in Nat /\ Window # 0
  BY SizeAssumption
<1>17. chart' \in Seq(Record) /\ Len(chart') <= Window /\ Len(chart') \in Nat
  BY <1>14, <1>15, <1>16, LastOfFacts
<1>18. Len(chart') # 0 /\ chart' # <<>>
  <2>1. more # <<>>
    BY <1>6, <1>14
  <2> QED
    BY <1>14, <1>15, <1>16, <1>17, <2>1, LastOfFacts
<1>19. PICK d \in Nat : /\ Len(chart') + d = Len(chart) + n
                        /\ \A i \in 1..Len(chart') : chart'[i] = more[i + d]
  <2>1. more \in Seq(Record)
    BY <1>14
  <2>2. \E d \in Nat : /\ Len(LastOf(more, Window)) + d = Len(more)
                       /\ \A i \in 1..Len(LastOf(more, Window)) : LastOf(more, Window)[i] = more[i + d]
    BY <1>16, <2>1, LastOfFacts
  <2> QED
    BY <1>14, <1>15, <2>2
<1>20. ChartIsHistory /\ ValuesAgree /\ KnownInv
  BY DEF PageInv
<1>21. \A i \in 1..Len(chart) : chart[i].ts \in Nat /\ chart[i].ts <= last
  <2>1. ASSUME NEW i \in 1..Len(chart)
        PROVE  chart[i].ts \in Nat /\ chart[i].ts <= last
    <3>1. chart[i] \in Record /\ chart[Len(chart)] \in Record /\ chart # <<>> /\ Len(chart) \in 1..Len(chart)
      BY <1>3, <1>14
    <3>2. chart[Len(chart)].ts = last
      BY <1>20, <3>1 DEF ValuesAgree
    <3>3. i = Len(chart) \/ chart[i].ts <= chart[Len(chart)].ts
      BY <1>14, <1>20, <3>1 DEF ChartIsHistory
    <3> QED
      BY <1>3, <3>1, <3>2, <3>3 DEF Record
  <2> QED
    BY <2>1
<1>22. ASSUME NEW i \in 1..Len(more), NEW j \in 1..Len(more), i < j
       PROVE  more[i].ts <= more[j].ts
  <2>1. CASE j \in 1..Len(chart)
    <3>1. i \in 1..Len(chart)
      BY <1>14, <1>22, <2>1
    <3> QED
      BY <1>14, <1>20, <1>22, <2>1, <3>1 DEF ChartIsHistory
  <2>2. CASE j \notin 1..Len(chart) /\ i \in 1..Len(chart)
    <3>1. j - Len(chart) \in 1..n /\ j = Len(chart) + (j - Len(chart))
      BY <1>6, <1>14, <2>2
    <3>2. more[j] = t[j - Len(chart)]
      BY <1>14, <3>1
    <3>3. more[j].ts \in Nat /\ more[j].ts > last
      BY <1>9, <3>1, <3>2
    <3>4. more[i].ts \in Nat /\ more[i].ts <= last
      BY <1>14, <1>21, <2>2
    <3> QED
      BY <1>3, <3>3, <3>4
  <2>3. CASE i \notin 1..Len(chart)
    <3>1. /\ i - Len(chart) \in 1..n /\ j - Len(chart) \in 1..n /\ i - Len(chart) < j - Len(chart)
          /\ i = Len(chart) + (i - Len(chart)) /\ j = Len(chart) + (j - Len(chart))
      BY <1>6, <1>14, <1>22, <2>3
    <3>2. more[i] = t[i - Len(chart)] /\ more[j] = t[j - Len(chart)]
      BY <1>14, <3>1
    <3> QED
      BY <1>12, <3>1, <3>2
  <2> QED
    BY <2>1, <2>2, <2>3
<1>23. ASSUME NEW i \in 1..Len(chart'), NEW j \in 1..Len(chart'), i < j
       PROVE  chart'[i].ts <= chart'[j].ts
  <2>1. i + d \in 1..Len(more) /\ j + d \in 1..Len(more) /\ i + d < j + d
    BY <1>6, <1>14, <1>17, <1>19, <1>23
  <2> QED
    BY <1>19, <1>22, <2>1
<1>24. chart'[Len(chart')] = end
  <2>1. Len(chart') \in 1..Len(chart') /\ n \in 1..n
    BY <1>6, <1>17, <1>18
  <2>2. chart'[Len(chart')] = more[Len(chart) + n]
    BY <1>19, <2>1
  <2> QED
    BY <1>14, <2>1, <2>2 DEF end
<1>25. drawn' \in Seq(Nat) /\ Len(drawn') = Len(drawn) /\ DOMAIN drawn' = DOMAIN drawn
  <2>1. DOMAIN drawn = 1..Len(drawn) /\ Len(drawn) \in Nat /\ \A i \in 1..Len(drawn) : drawn[i] \in Nat
    BY <1>3
  <2>2. drawn' \in [1..Len(drawn) -> Nat]
    BY <1>1, <2>1
  <2> QED
    BY <2>1, <2>2
<1>26. ASSUME NEW i \in DOMAIN drawn
       PROVE  \/ drawn'[i] = drawn[i] /\ ~\E j \in 1..n : t[j].id = i
              \/ drawn[i] = 0 /\ drawn'[i] = 1
  <2>1. CASE \E j \in 1..n : t[j].id = i
    <3>1. PICK j \in 1..n : t[j].id = i
      BY <2>1
    <3>2. t[j] \in Record /\ Known(t[j]) /\ t[j].ts > last
      BY <1>4, <1>9
    <3>3. drawn[i] \in Nat /\ ~(drawn[i] > 0)
      <4>1. drawn[i] > 0 => t[j].ts <= last
        BY <1>20, <3>1, <3>2 DEF KnownInv
      <4>2. drawn[i] \in Nat
        BY <1>3
      <4>3. ~(t[j].ts <= last)
        BY <1>3, <1>9, <3>2
      <4> QED
        BY <4>1, <4>2, <4>3
    <3>4. drawn'[i] = drawn[i] + 1
      BY <1>1, <1>8, <3>1
    <3> QED
      BY <3>3, <3>4
  <2>2. CASE ~\E j \in 1..n : t[j].id = i
    BY <1>1, <1>8, <2>2
  <2> QED
    BY <2>1, <2>2
<1>27. ChartIsHistory'
  <2>1. \A i \in DOMAIN drawn' : drawn'[i] <= 1
    BY <1>20, <1>25, <1>26 DEF ChartIsHistory
  <2> QED
    BY <1>17, <1>23, <2>1 DEF ChartIsHistory
<1>28. /\ anim' \in Seq(Record) /\ anim' # <<>> /\ anim'[Len(anim')] = end
  <2>1. /\ anim' \in Seq(Record) /\ Len(anim') = Len(anim) + 1 /\ Len(anim) \in Nat
        /\ anim'[Len(anim) + 1] = end
    BY <1>3, <1>9, <1>10, AppendFacts
  <2> QED
    BY <2>1
<1>29. ValuesAgree' /\ AnimInv'
  <2>1. end # None
    BY <1>9, NoneAssumption DEF Record
  <2> QED
    BY <1>10, <1>18, <1>24, <1>28, <2>1 DEF ValuesAgree, AnimInv
<1>30. polls' \in [Poll -> [st : {"idle", "asked", "answered"}, recs : Seq(Record)]]
  BY <1>2, <1>3 DEF Resting
<1>31. TypeInv'
  BY <1>2, <1>9, <1>10, <1>13, <1>17, <1>25, <1>28, <1>30 DEF PageInv, TypeInv
<1>32. ASSUME NEW r, Known(r)'
       PROVE  Known(r)
  <2>1. CASE Has(records', r)
    BY <1>2, <2>1 DEF Known
  <2>2. ASSUME NEW q \in Poll, Has(polls'[q].recs, r)
        PROVE  Known(r)
    <3>1. polls'[q].recs = IF q = p THEN <<>> ELSE polls[q].recs
      BY <1>2, <1>3 DEF Resting
    <3>2. ~Has(<<>>, r)
      BY DEF Has
    <3> QED
      BY <2>2, <3>1, <3>2 DEF Known
  <2> QED
    BY <1>32, <2>1, <2>2 DEF Known
<1>33. ASSUME NEW r \in Record, Known(r)
       PROVE  r.id \in 1..Len(drawn') /\ (drawn'[r.id] > 0 => r.ts <= last')
  <2>1. r.id \in 1..Len(drawn) /\ (drawn[r.id] > 0 => r.ts <= last) /\ r.id \in DOMAIN drawn /\ r.ts \in Nat
    <3>1. r.id \in 1..Len(drawn) /\ (drawn[r.id] > 0 => r.ts <= last)
      BY <1>20, <1>33 DEF KnownInv
    <3>2. DOMAIN drawn = 1..Len(drawn)
      BY <1>3
    <3> QED
      BY <1>33, <3>1, <3>2 DEF Record
  <2>2. CASE \E j \in 1..n : t[j].id = r.id
    <3>1. PICK j \in 1..n : t[j].id = r.id
      BY <2>2
    <3>2. t[j] = r
      BY <1>4, <1>9, <1>20, <1>33, <3>1 DEF KnownInv
    <3> QED
      BY <1>9, <1>10, <1>25, <2>1, <3>2
  <2>3. CASE ~\E j \in 1..n : t[j].id = r.id
    <3>1. drawn'[r.id] = drawn[r.id]
      BY <1>1, <1>8, <2>1, <2>3
    <3> QED
      BY <1>3, <1>13, <1>25, <2>1, <3>1
  <2> QED
    BY <2>2, <2>3
<1>34. KnownInv'
  <2>1. \A r, q \in Record : Known(r) /\ Known(q) /\ r.id = q.id => r = q
    BY <1>20 DEF KnownInv
  <2> QED
    BY <1>32, <1>33, <2>1 DEF KnownInv
<1> QED
  BY <1>27, <1>29, <1>31, <1>34 DEF PageInv

LEMMA PageFrame ==
  ASSUME PageInv, Frame
  PROVE  PageInv'
<1>1. /\ UNCHANGED <<records, polls, last, chart, shown, drawn>>
      /\ anim \in Seq(Record) /\ anim # <<>> /\ Len(anim) \in Nat
  BY DEF Frame, PageInv, TypeInv
<1>2. PICK over \in 0..Len(anim) :
        /\ anim' = SubSeq(anim, over + 1, Len(anim))
        /\ number' = IF over = Len(anim) THEN anim[over] ELSE None
  BY DEF Frame
<1>3. anim[Len(anim)] = shown /\ Len(anim) # 0
  BY <1>1 DEF PageInv, AnimInv
<1>4. CASE over = Len(anim)
  <2>1. anim' = <<>> /\ number' = shown
    BY <1>1, <1>2, <1>3, <1>4
  <2> QED
    BY <1>1, <2>1 DEF PageInv, TypeInv, KnownInv, Known, ChartIsHistory, ValuesAgree, AnimInv
<1>5. CASE over # Len(anim)
  <2>1. over \in Nat /\ over < Len(anim)
    BY <1>1, <1>5
  <2>2. /\ anim' \in Seq(Record) /\ Len(anim') = Len(anim) - over
        /\ \A i \in 1..Len(anim') : anim'[i] = anim[i + over]
    BY <1>1, <1>2, <2>1
  <2>3. Len(anim') \in 1..Len(anim') /\ Len(anim') + over = Len(anim)
    BY <1>1, <2>1, <2>2
  <2>4. anim' # <<>> /\ anim'[Len(anim')] = shown
    BY <1>3, <2>2, <2>3
  <2>5. number' = None
    BY <1>2, <1>5
  <2> QED
    BY <1>1, <2>2, <2>4, <2>5 DEF PageInv, TypeInv, KnownInv, Known, ChartIsHistory, ValuesAgree, AnimInv
<1> QED
  BY <1>4, <1>5

-----------------------------------------------------------------------------
(* Theorems.                                                                   *)

LEMMA PageSteps ==
  ASSUME PageInv, [Next]_vars
  PROVE  PageInv'
<1>1. CASE UNCHANGED vars
  BY <1>1 DEF vars, PageInv, TypeInv, KnownInv, Known, ChartIsHistory, ValuesAgree, AnimInv
<1> QED
  BY <1>1, PageArrive, PageAsked, PageDraw, PageFrame DEF Next

LEMMA PageAlways == Spec => []PageInv
  BY PageStarts, PageSteps, PTL DEF Spec

\* The charts never run back in time and no record is drawn twice, for any number of
\* polls that overlap and answer in any order (pollData takes what is later than
\* lastRecordTimestamp when the answer comes, not when it was asked for).
THEOREM ChartIsHistoryAlways == Spec => []ChartIsHistory
<1>1. PageInv => ChartIsHistory
  BY DEF PageInv
<1> QED
  BY <1>1, PageAlways, PTL

\* Charts, current values, lastRecordTimestamp and the animated number belong to one
\* record, whichever animations are still under way.
THEOREM ValuesAgreeAlways == Spec => []ValuesAgree
<1>1. PageInv => ValuesAgree
  BY DEF PageInv
<1> QED
  BY <1>1, PageAlways, PTL

=============================================================================
