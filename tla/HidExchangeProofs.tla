------------------------- MODULE HidExchangeProofs -------------------------
(***************************************************************************)
(* Proofs about HidExchange for any number of goroutines, any camera and   *)
(* any answers it may give.                                                *)
(*                                                                         *)
(* Why answers are not mixed up: who has the node open holds hidMu, so one *)
(* goroutine at most waits for an answer, and closing the node makes what  *)
(* is still under way late, for nobody.                                    *)
(***************************************************************************)
EXTENDS HidExchange, TLAPS

\* What is asked, what comes back, and what is made of it.
Question == {q \in [head : Heads, slot : 0 .. Slots] : q.head = "slot" => q.slot \in Slot}
Report   == [head : Heads, payload : Seq(Nat), of : Goroutine \cup {None}]
Outcome  == {Failed} \cup Nat \cup Seq(Nat)
                \cup [occupied : BOOLEAN, position : Nat \cup {None}]

Shape ==
    /\ camera \in [Setting \cup {"battery"} -> Nat] /\ belief \in [Setting -> Nat]
    /\ wire \in Seq(Report) /\ hidMu \in Goroutine \cup {None}
    /\ job \in [Goroutine -> Job \cup {"none"}] /\ todo \in [Goroutine -> Seq(Question)]
    /\ asked \in [Goroutine -> Heads \cup {None}] /\ got \in [Goroutine -> Seq(Outcome)]

\* The node is open for the first query of a job that holds hidMu and goes on.
AskerHolds ==
    \A g \in Goroutine : asked[g] # None =>
        /\ hidMu = g /\ job[g] # "none" /\ ~Done(g)
        /\ asked[g] = todo[g][1].head

\* An answer that is not late has somebody waiting for it.
AnswersAreAwaited ==
    \A i \in 1 .. Len(wire) : wire[i].of # None => asked[wire[i].of] # None

\* A job yields one value for a query; a reconcile has one query, then two more.
JobsProgress ==
    \A g \in Goroutine :
        /\ job[g] = "none" => got[g] = <<>> /\ todo[g] = <<>>
        /\ job[g] = "sync" => Len(got[g]) + Len(todo[g]) = 3
        /\ job[g] = "reconcile" => Len(got[g]) + Len(todo[g]) \in {1, 3}
        /\ job[g] # "none" => Len(got[g]) + Len(todo[g]) <= Slots + 4

\* Syncs and reconciles ask for settings and get bytes.
SettingsOnly ==
    \A g \in Goroutine : job[g] \in {"sync", "reconcile"} =>
        /\ \A i \in 1 .. Len(todo[g]) : todo[g][i].head \in Setting
        /\ \A i \in 1 .. Len(got[g]) : got[g][i] \in Nat \cup {Failed}

\* One answer at most is not late.
LateIsBounded ==
    /\ Len(wire) <= MaxLate + 1
    /\ (\A g \in Goroutine : asked[g] = None) => Len(wire) <= MaxLate

IInv ==
    /\ Shape /\ AskerHolds /\ AnswersAreAwaited /\ JobsProgress /\ SettingsOnly
    /\ LateIsBounded

(* The heads one by one. *)
LEMMA HeadNames ==
  /\ V2 = {"battery", "charge", "sn", "ver", "devver", "func", "slot"}
  /\ Setting \cap V2 = {}
<1>1. ToSet(Power) = {"battery", "charge"}
  BY DEF ToSet, Power
<1>2. ToSet(Identity) = {"sn", "ver", "devver", "func"}
  BY DEF ToSet, Identity
<1>3. V2 = {"battery", "charge", "sn", "ver", "devver", "func", "slot"}
  BY <1>1, <1>2 DEF V2
<1>4. QED
  BY <1>3 DEF Setting

(* A function on 1 .. n is a sequence of length n. *)
LEMMA FunctionIsSeq ==
  ASSUME NEW S, NEW n \in Nat, NEW f \in [1 .. n -> S]
  PROVE  f \in Seq(S) /\ Len(f) = n
OBVIOUS

(* The first element of a sequence that is not empty, and what is after it. *)
LEMMA FirstAndRest ==
  ASSUME NEW S, NEW s \in Seq(S), s # <<>>
  PROVE  /\ s[1] \in S /\ Head(s) = s[1]
         /\ Tail(s) \in Seq(S) /\ Len(Tail(s)) = Len(s) - 1 /\ Len(s) \in Nat \ {0}
         /\ \A i \in 1 .. Len(Tail(s)) : Tail(s)[i] = s[i + 1] /\ i + 1 \in 1 .. Len(s)
OBVIOUS

(* The fields of questions and reports. *)
LEMMA FieldTypes ==
  /\ \A q \in Question : q.head \in Heads
  /\ \A a \in Report : a.head \in Heads /\ a.payload \in Seq(Nat) /\ a.of \in Goroutine \cup {None}
BY DEF Question, Report

(* Questions of a job: those of syncs and reconciles are for settings. *)
LEMMA QueriesType ==
  ASSUME NEW j \in Job
  PROVE  /\ Queries(j) \in Seq(Question) /\ Len(Queries(j)) <= Slots + 4
         /\ j = "sync" => Len(Queries(j)) = 3
         /\ j = "reconcile" => Len(Queries(j)) = 1
         /\ j \in {"sync", "reconcile"} =>
              \A i \in 1 .. Len(Queries(j)) : Queries(j)[i].head \in Setting
<1>1. \A h \in Heads \ {"slot"} : Query(h) \in Question /\ Query(h).head = h
  BY ExchangeAssumption DEF Query, Question
<1>2. Slots \in Nat \ {0} /\ \A n \in {1, 2, 3, 4, Slots} : n <= Slots + 4
  BY ExchangeAssumption
<1>3. CASE j = "sync"
  <2>1. Queries(j) = <<Query("tracking"), Query("audio"), Query("gesture")>>
    BY <1>3 DEF Queries
  <2>2. Queries(j) \in [1 .. 3 -> Question]
    BY <1>1, <2>1, HeadNames DEF Heads, Setting
  <2>3. \A i \in 1 .. 3 : Queries(j)[i].head \in Setting
    BY <1>1, <2>1, HeadNames DEF Heads, Setting
  <2>4. Queries(j) \in Seq(Question) /\ Len(Queries(j)) = 3
    BY <1>2, <2>2, FunctionIsSeq
  <2>5. QED
    BY <1>3, <1>2, <2>3, <2>4, Zenon
<1>4. CASE j = "reconcile"
  <2>1. Queries(j) = <<Query("tracking")>>
    BY <1>4 DEF Queries
  <2>2. Queries(j) \in [1 .. 1 -> Question]
    BY <1>1, <2>1, HeadNames DEF Heads, Setting
  <2>3. \A i \in 1 .. 1 : Queries(j)[i].head \in Setting
    BY <1>1, <2>1, HeadNames DEF Heads, Setting
  <2>4. Queries(j) \in Seq(Question) /\ Len(Queries(j)) = 1
    BY <1>2, <2>2, FunctionIsSeq
  <2>5. QED
    BY <1>4, <1>2, <2>3, <2>4, Zenon
<1>5. CASE j = "power"
  <2>1. Queries(j) = [i \in 1 .. 2 |-> Query(Power[i])]
    BY <1>5 DEF Queries
  <2>2. Queries(j) \in [1 .. 2 -> Question]
    BY <1>1, <2>1, HeadNames DEF Heads, Power
  <2>3. Queries(j) \in Seq(Question) /\ Len(Queries(j)) = 2
    BY <1>2, <2>2, FunctionIsSeq
  <2>4. QED
    BY <1>2, <1>5, <2>3, Zenon
<1>6. CASE j = "identity"
  <2>1. Queries(j) = [i \in 1 .. 4 |-> Query(Identity[i])]
    BY <1>6 DEF Queries
  <2>2. Queries(j) \in [1 .. 4 -> Question]
    BY <1>1, <2>1, HeadNames DEF Heads, Identity
  <2>3. Queries(j) \in Seq(Question) /\ Len(Queries(j)) = 4
    BY <1>2, <2>2, FunctionIsSeq
  <2>4. QED
    BY <1>2, <1>6, <2>3, Zenon
<1>7. CASE j = "pull"
  <2>1. Queries(j) = [s \in 1 .. Slots |-> [head |-> "slot", slot |-> s]]
    BY <1>7 DEF Queries, AllSlots, Slot
  <2>2. Queries(j) \in [1 .. Slots -> Question]
    BY <1>2, <2>1, HeadNames DEF Heads, Question, Slot
  <2>3. Queries(j) \in Seq(Question) /\ Len(Queries(j)) = Slots
    BY <1>2, <2>2, FunctionIsSeq
  <2>4. QED
    BY <1>2, <1>7, <2>3, Zenon
<1>8. QED
  BY <1>3, <1>4, <1>5, <1>6, <1>7 DEF Job

(* The camera answers in bytes. *)
LEMMA ReplyType ==
  ASSUME camera \in [Setting \cup {"battery"} -> Nat], NEW q \in Question, NEW p \in Reply(q)
  PROVE  p \in Seq(Nat)
<1> USE ExchangeAssumption, HeadNames DEF Question, Heads
<1>1. CASE q.head \in DOMAIN camera
  <2>1. p = <<camera[q.head]>> /\ camera[q.head] \in Nat
    BY <1>1 DEF Reply
  <2>2. QED
    BY <2>1
<1>2. CASE q.head = "slot"
  BY <1>2 DEF Reply, Setting
<1>3. CASE q.head \notin DOMAIN camera /\ q.head # "slot"
  BY <1>3 DEF Reply
<1>4. QED
  BY <1>1, <1>2, <1>3

(* What the parsers make of a report; a setting is a byte. *)
LEMMA ParseType ==
  ASSUME NEW h \in Heads, NEW a \in Report
  PROVE  Parse(h, a) \in Outcome /\ (h \in Setting => Parse(h, a) \in Nat \cup {Failed})
<1> USE HeadNames DEF Report
<1>1. a.payload # <<>> => Byte(a) \in Nat
  BY DEF Byte
<1>2. ParseSetting(h, a) \in Nat \cup {Failed} \/ h \notin Setting
  <2>1. CASE h \in Setting /\ a.payload # <<>>
    <3>1. AnySetting(h, a) \in Nat
      BY <1>1, <2>1 DEF AnySetting, DefaultValue, Setting
    <3>2. QED
      BY <3>1 DEF ParseSetting
  <2>2. CASE a.payload = <<>>
    BY <2>2 DEF ParseSetting
  <2>3. QED
    BY <2>1, <2>2
<1>3. ParseV2(h, a) \in Outcome
  <2>1. CASE Len(a.payload) >= Needed(h)
    <3>1. Len(a.payload) >= 1
      BY <2>1 DEF Needed
    <3>2. ParseSlot(a.payload) \in [occupied : BOOLEAN, position : Nat \cup {None}]
      BY <3>1 DEF ParseSlot
    <3>3. a.payload \in Outcome /\ Failed \in Outcome
      BY DEF Outcome
    <3>4. ParseV2(h, a) \in {Failed, a.payload, ParseSlot(a.payload)}
      BY DEF ParseV2, EchoMatches, Printable
    <3>5. QED
      BY <3>2, <3>3, <3>4 DEF Outcome
  <2>2. CASE ~(Len(a.payload) >= Needed(h))
    <3>1. Len(a.payload) < Needed(h)
      BY <2>2 DEF Needed
    <3>2. QED
      BY <3>1 DEF ParseV2, EchoMatches, Printable, Outcome
  <2>3. QED
    BY <2>1, <2>2
<1>4. QED
  BY <1>2, <1>3 DEF Parse, Outcome

(* At first nobody asks and nothing is under way. *)
LEMMA InitIInv == Init => IInv
<1> SUFFICES ASSUME Init PROVE IInv
  OBVIOUS
<1> USE ExchangeAssumption DEF Init
<1>1. Shape
  <2>1. camera \in [Setting \cup {"battery"} -> Nat]
    OBVIOUS
  <2>2. belief \in [Setting -> Nat]
    BY DEF Setting
  <2>3. wire \in Seq(Report) /\ hidMu \in Goroutine \cup {None}
    OBVIOUS
  <2>4. job \in [Goroutine -> Job \cup {"none"}] /\ asked \in [Goroutine -> Heads \cup {None}]
    OBVIOUS
  <2>5. todo \in [Goroutine -> Seq(Question)] /\ got \in [Goroutine -> Seq(Outcome)]
    OBVIOUS
  <2>6. QED
    BY <2>1, <2>2, <2>3, <2>4, <2>5 DEF Shape
<1>2. AskerHolds /\ AnswersAreAwaited /\ JobsProgress /\ SettingsOnly
  BY DEF AskerHolds, AnswersAreAwaited, JobsProgress, SettingsOnly
<1>3. LateIsBounded
  BY DEF LateIsBounded
<1>4. QED
  BY <1>1, <1>2, <1>3 DEF IInv

\* The state of the jobs and of their queries.
WorkShape ==
    /\ hidMu \in Goroutine \cup {None} /\ job \in [Goroutine -> Job \cup {"none"}]
    /\ todo \in [Goroutine -> Seq(Question)] /\ got \in [Goroutine -> Seq(Outcome)]
    /\ JobsProgress /\ SettingsOnly

(* A query that ends takes its place in what the job has got. *)
LEMMA QueryEnds ==
  ASSUME WorkShape, NEW g \in Goroutine, hidMu = g, todo[g] # <<>>, job[g] # "none",
         NEW value \in Outcome, todo[g][1].head \in Setting => value \in Nat \cup {Failed},
         Yields(g, value), UnlockAfterQuery(g), job' = job
  PROVE  WorkShape'
<1> USE ExchangeAssumption DEF WorkShape
<1>1. /\ todo[g] \in Seq(Question) /\ Tail(todo[g]) \in Seq(Question) /\ Len(todo[g]) >= 1
      /\ Len(Tail(todo[g])) = Len(todo[g]) - 1
      /\ \A i \in 1 .. Len(Tail(todo[g])) : Tail(todo[g])[i] = todo[g][i + 1]
  OBVIOUS
<1>2. /\ got[g] \in Seq(Outcome) /\ Append(got[g], value) \in Seq(Outcome)
      /\ Len(Append(got[g], value)) = Len(got[g]) + 1
      /\ \A i \in 1 .. Len(got[g]) + 1 :
            Append(got[g], value)[i] = IF i = Len(got[g]) + 1 THEN value ELSE got[g][i]
  OBVIOUS
<1>3. <<>> \in Seq(Outcome) /\ Len(<<>>) = 0
  OBVIOUS
<1>4. \E new \in {<<>>, Append(got[g], value)} :
         /\ got' = [got EXCEPT ![g] = new]
         /\ job[g] \in {"sync", "reconcile"} => new = Append(got[g], value)
  BY DEF Yields
<1>5. todo' = [todo EXCEPT ![g] = Tail(todo[g])]
  BY DEF Yields
<1>6. hidMu' \in Goroutine \cup {None}
  BY DEF UnlockAfterQuery
<1>7. todo' \in [Goroutine -> Seq(Question)] /\ got' \in [Goroutine -> Seq(Outcome)]
  <2>1. todo' \in [Goroutine -> Seq(Question)]
    BY <1>1, <1>5
  <2>2. PICK new \in Seq(Outcome) : got' = [got EXCEPT ![g] = new]
    BY <1>2, <1>3, <1>4
  <2>3. got' \in [Goroutine -> Seq(Outcome)]
    BY <2>2
  <2>4. QED
    BY <2>1, <2>3
<1>8. /\ \A k \in Goroutine \ {g} : todo'[k] = todo[k] /\ got'[k] = got[k]
      /\ todo'[g] = Tail(todo[g]) /\ got'[g] \in {<<>>, Append(got[g], value)}
      /\ job[g] \in {"sync", "reconcile"} => got'[g] = Append(got[g], value)
  BY <1>4, <1>5
<1>9. JobsProgress'
  <2>1. \A k \in Goroutine \ {g} :
          /\ job'[k] = "none" => got'[k] = <<>> /\ todo'[k] = <<>>
          /\ job'[k] = "sync" => Len(got'[k]) + Len(todo'[k]) = 3
          /\ job'[k] = "reconcile" => Len(got'[k]) + Len(todo'[k]) \in {1, 3}
          /\ job'[k] # "none" => Len(got'[k]) + Len(todo'[k]) <= Slots + 4
    BY <1>8 DEF JobsProgress
  <2>2. job[g] = "sync" => Len(got'[g]) + Len(todo'[g]) = 3
    BY <1>1, <1>2, <1>8 DEF JobsProgress
  <2>3. job[g] = "reconcile" => Len(got'[g]) + Len(todo'[g]) \in {1, 3}
    <3>1. ASSUME job[g] = "reconcile"
          PROVE  Len(got'[g]) + Len(todo'[g]) = Len(got[g]) + Len(todo[g])
      <4>1. Len(got'[g]) = Len(got[g]) + 1
        BY <1>2, <1>8, <3>1
      <4>2. Len(todo'[g]) = Len(todo[g]) - 1
        BY <1>1, <1>8
      <4>3. Len(got[g]) \in Nat /\ Len(todo[g]) \in Nat
        OBVIOUS
      <4>4. QED
        BY <4>1, <4>2, <4>3
    <3>2. QED
      BY <3>1, Zenon DEF JobsProgress
  <2>4. Len(got'[g]) + Len(todo'[g]) <= Slots + 4
    BY <1>1, <1>2, <1>3, <1>8 DEF JobsProgress
  <2>5. QED
    BY <2>1, <2>2, <2>3, <2>4 DEF JobsProgress
<1>10. SettingsOnly'
  <2>1. \A k \in Goroutine \ {g} : job[k] \in {"sync", "reconcile"} =>
          /\ \A i \in 1 .. Len(todo'[k]) : todo'[k][i].head \in Setting
          /\ \A i \in 1 .. Len(got'[k]) : got'[k][i] \in Nat \cup {Failed}
    BY <1>8 DEF SettingsOnly
  <2>2. ASSUME job[g] \in {"sync", "reconcile"}
        PROVE  /\ \A i \in 1 .. Len(todo'[g]) : todo'[g][i].head \in Setting
               /\ \A i \in 1 .. Len(got'[g]) : got'[g][i] \in Nat \cup {Failed}
    <3>1. \A i \in 1 .. Len(todo[g]) : todo[g][i].head \in Setting
      BY <2>2 DEF SettingsOnly
    <3>2. \A i \in 1 .. Len(todo'[g]) : i + 1 \in 1 .. Len(todo[g])
      BY <1>1, <1>8
    <3>3. value \in Nat \cup {Failed} /\ \A i \in 1 .. Len(got[g]) : got[g][i] \in Nat \cup {Failed}
      BY <1>1, <2>2, <3>1 DEF SettingsOnly
    <3>4. \A i \in 1 .. Len(todo'[g]) : todo'[g][i].head \in Setting
      BY <1>1, <1>8, <3>1, <3>2
    <3>5. got'[g] = Append(got[g], value)
      BY <1>8, <2>2
    <3>6. \A i \in 1 .. Len(got[g]) + 1 : i = Len(got[g]) + 1 \/ i \in 1 .. Len(got[g])
      BY <1>2
    <3>7. \A i \in 1 .. Len(got'[g]) : got'[g][i] \in Nat \cup {Failed}
      BY <1>2, <3>3, <3>5, <3>6
    <3>8. QED
      BY <3>4, <3>7
  <2>3. QED
    BY <2>1, <2>2 DEF SettingsOnly
<1>11. QED
  BY <1>6, <1>7, <1>9, <1>10

(* Who has the node open holds hidMu, so nobody else has. *)
LEMMA OneAsker ==
  ASSUME AskerHolds, NEW g \in Goroutine, hidMu = g, NEW k \in Goroutine \ {g}
  PROVE  asked[k] = None
BY DEF AskerHolds

(* Closing the node leaves nobody who waits and no answer that is not late. *)
LEMMA ClosingLeavesNobody ==
  ASSUME Shape, AskerHolds, AnswersAreAwaited, NEW g \in Goroutine, hidMu = g,
         NEW left \in Seq(Report),
         \A i \in 1 .. Len(left) : \E j \in 1 .. Len(wire) : left[i] = wire[j],
         Close(g, left)
  PROVE  /\ wire' \in Seq(Report) /\ Len(wire') = Len(left)
         /\ asked' = [k \in Goroutine |-> None] /\ AnswersAreAwaited'
<1> USE ExchangeAssumption DEF Shape
<1>1. asked' = [k \in Goroutine |-> None]
  BY OneAsker DEF Close
<1>2. \A i \in 1 .. Len(left) : left[i] \in Report /\ left[i].of \in {g, None}
  <2>1. ASSUME NEW j \in 1 .. Len(wire), wire[j].of \notin {g, None} PROVE FALSE
    <3>1. wire[j].of \in Goroutine \ {g}
      BY <2>1, FieldTypes
    <3>2. asked[wire[j].of] = None
      BY <3>1, OneAsker
    <3>3. QED
      BY <2>1, <3>2 DEF AnswersAreAwaited
  <2>2. \A j \in 1 .. Len(wire) : wire[j].of \in {g, None}
    BY <2>1
  <2>3. ASSUME NEW i \in 1 .. Len(left) PROVE left[i] \in Report /\ left[i].of \in {g, None}
    <3>1. PICK j \in 1 .. Len(wire) : left[i] = wire[j]
      OBVIOUS
    <3>2. left[i] \in Report
      OBVIOUS
    <3>3. QED
      BY <2>2, <3>1, <3>2
  <2>4. QED
    BY <2>3
<1>3. /\ DOMAIN left = 1 .. Len(left) /\ Len(left) \in Nat
      /\ wire' = [i \in 1 .. Len(left) |->
                    IF left[i].of = g THEN [left[i] EXCEPT !.of = None] ELSE left[i]]
  BY DEF Close
<1>4. \A i \in 1 .. Len(left) : wire'[i] \in Report /\ wire'[i].of = None
  BY <1>2, <1>3 DEF Report
<1>5. wire' \in [1 .. Len(left) -> Report]
  BY <1>3, <1>4
<1>6. wire' \in Seq(Report) /\ Len(wire') = Len(left)
  BY <1>3, <1>5, FunctionIsSeq
<1>7. QED
  BY <1>1, <1>4, <1>6 DEF AnswersAreAwaited

(* Asking opens the node for the only goroutine that may. *)
LEMMA AskStep ==
  ASSUME IInv, NEW g \in Goroutine, Ask(g)
  PROVE  IInv'
<1> USE ExchangeAssumption DEF IInv, Shape
<1>1. /\ hidMu = g /\ asked[g] = None /\ ~Done(g) /\ todo[g] # <<>> /\ job[g] # "none"
      /\ UNCHANGED <<camera, belief, hidMu, job, todo, got>>
  BY DEF Ask, Turn, Done, memory, work, JobsProgress
<1>2. todo[g][1] \in Question /\ todo[g][1].head \in Heads /\ Head(todo[g]) = todo[g][1]
  <2>1. todo[g] \in Seq(Question)
    OBVIOUS
  <2>2. QED
    BY <1>1, <2>1, FirstAndRest, FieldTypes
<1>3. asked' = [asked EXCEPT ![g] = todo[g][1].head]
  BY <1>2 DEF Ask
<1>4. asked' \in [Goroutine -> Heads \cup {None}] /\ asked'[g] # None
      /\ \A k \in Goroutine \ {g} : asked'[k] = None
  BY <1>1, <1>2, <1>3, OneAsker
<1>5. \/ wire' = wire
      \/ \E p \in Reply(todo[g][1]) :
           wire' = Append(wire, [head |-> todo[g][1].head, payload |-> p, of |-> g])
  BY <1>2 DEF Ask
<1>6. \A k \in Goroutine : asked[k] = None
  BY <1>1, OneAsker
<1>7. Len(wire) <= MaxLate /\ \A i \in 1 .. Len(wire) : wire[i].of = None
  <2>1. \A i \in 1 .. Len(wire) : wire[i].of \in Goroutine \cup {None}
    BY FieldTypes
  <2>2. QED
    BY <1>6, <2>1 DEF LateIsBounded, AnswersAreAwaited
<1>8. AskerHolds'
  <2>1. ~Done(g)'
    BY <1>1 DEF Done
  <2>2. QED
    BY <1>1, <1>2, <1>3, <1>4, <2>1 DEF AskerHolds
<1>9. CASE wire' = wire
  <2>1. AnswersAreAwaited' /\ LateIsBounded'
    BY <1>1, <1>4, <1>7, <1>9 DEF AnswersAreAwaited, LateIsBounded
  <2>2. Shape'
    BY <1>1, <1>4, <1>9
  <2>3. JobsProgress' /\ SettingsOnly'
    BY <1>1 DEF JobsProgress, SettingsOnly
  <2>4. QED
    BY <1>8, <2>1, <2>2, <2>3
<1>10. ASSUME NEW p \in Reply(todo[g][1]),
             wire' = Append(wire, [head |-> todo[g][1].head, payload |-> p, of |-> g])
      PROVE  IInv'
  <2>1. p \in Seq(Nat)
    BY <1>2, <1>10, ReplyType
  <2>2. [head |-> todo[g][1].head, payload |-> p, of |-> g] \in Report
    BY <1>2, <2>1 DEF Report
  <2>3. wire' \in Seq(Report) /\ Len(wire') = Len(wire) + 1
        /\ \A i \in 1 .. Len(wire') : (i \in 1 .. Len(wire) /\ wire'[i] = wire[i]) \/ wire'[i].of = g
    BY <1>10, <2>2
  <2>4. AnswersAreAwaited'
    <3>1. \A i \in 1 .. Len(wire') : wire'[i].of \in {None, g}
      BY <1>7, <2>3
    <3>2. QED
      BY <1>4, <3>1 DEF AnswersAreAwaited
  <2>5. LateIsBounded'
    <3>1. Len(wire) \in Nat
      OBVIOUS
    <3>2. QED
      BY <1>4, <1>7, <2>3, <3>1 DEF LateIsBounded
  <2>6. Shape'
    BY <1>1, <1>4, <2>3
  <2>7. JobsProgress' /\ SettingsOnly'
    BY <1>1 DEF JobsProgress, SettingsOnly
  <2>8. QED
    BY <1>8, <2>4, <2>5, <2>6, <2>7
<1>11. QED
  BY <1>5, <1>9, <1>10

(* However a query ends, nobody asks afterwards. *)
LEMMA ExchangeEndsStep ==
  ASSUME IInv, NEW g \in Goroutine, AskFails(g) \/ Accept(g) \/ TimeOut(g)
  PROVE  IInv'
<1> USE ExchangeAssumption DEF IInv, Shape
<1>1. hidMu = g /\ job[g] # "none" /\ todo[g] # <<>> /\ UNCHANGED <<camera, belief, job>>
  <2>1. UNCHANGED <<camera, belief, job>>
    BY DEF AskFails, Accept, TimeOut, memory
  <2>2. hidMu = g /\ ~Done(g)
    BY DEF AskFails, Turn, Accept, TimeOut, AskerHolds
  <2>3. todo[g] # <<>>
    BY <2>2 DEF Done
  <2>4. job[g] # "none"
    BY <2>3 DEF JobsProgress
  <2>5. QED
    BY <2>1, <2>2, <2>3, <2>4
<1>2. PICK value \in Outcome :
        /\ todo[g][1].head \in Setting => value \in Nat \cup {Failed}
        /\ Yields(g, value) /\ UnlockAfterQuery(g)
  <2>1. CASE AskFails(g) \/ TimeOut(g)
    <3>1. Failed \in Outcome /\ Yields(g, Failed) /\ UnlockAfterQuery(g)
      BY <2>1 DEF AskFails, TimeOut, Outcome
    <3>2. QED
      BY <3>1
  <2>2. CASE Accept(g)
    <3>1. Head(wire) \in Report /\ asked[g] \in Heads /\ asked[g] = todo[g][1].head
      BY <2>2 DEF Accept, AskerHolds
    <3>2. Yields(g, Parse(asked[g], Head(wire))) /\ UnlockAfterQuery(g)
      BY <2>2 DEF Accept
    <3>3. QED
      BY <3>1, <3>2, ParseType
  <2>3. QED
    BY <2>1, <2>2
<1>3. WorkShape'
  BY <1>1, <1>2, QueryEnds DEF WorkShape
<1>4. /\ wire' \in Seq(Report) /\ asked' \in [Goroutine -> {None}]
      /\ AnswersAreAwaited' /\ Len(wire') <= MaxLate
  <2>1. CASE AskFails(g)
    <3>1. UNCHANGED <<wire, asked>> /\ asked[g] = None
      BY <2>1 DEF AskFails, Turn
    <3>2. \A k \in Goroutine : asked[k] = None
      BY <1>1, <3>1, OneAsker
    <3>3. QED
      BY <3>1, <3>2 DEF AnswersAreAwaited, LateIsBounded
  <2>2. CASE wire # <<>> /\ Close(g, Tail(wire))
    <3>1. /\ Tail(wire) \in Seq(Report) /\ Len(Tail(wire)) = Len(wire) - 1
          /\ \A i \in 1 .. Len(Tail(wire)) : Tail(wire)[i] = wire[i + 1] /\ i + 1 \in 1 .. Len(wire)
      BY <2>2
    <3>2. \A i \in 1 .. Len(Tail(wire)) : \E j \in 1 .. Len(wire) : Tail(wire)[i] = wire[j]
      BY <3>1
    <3>3. wire' \in Seq(Report) /\ Len(wire') = Len(Tail(wire))
          /\ asked' = [k \in Goroutine |-> None] /\ AnswersAreAwaited'
      BY <1>1, <2>2, <3>1, <3>2, ClosingLeavesNobody
    <3>4. QED
      BY <3>1, <3>3 DEF LateIsBounded
  <2>3. CASE Len(wire) <= MaxLate /\ Close(g, wire)
    <3>1. wire' \in Seq(Report) /\ Len(wire') = Len(wire)
          /\ asked' = [k \in Goroutine |-> None] /\ AnswersAreAwaited'
      BY <1>1, <2>3, ClosingLeavesNobody
    <3>2. QED
      BY <2>3, <3>1
  <2>4. QED
    BY <2>1, <2>2, <2>3 DEF Accept, TimeOut
<1>5. Shape'
  BY <1>1, <1>3, <1>4 DEF WorkShape
<1>6. AskerHolds' /\ LateIsBounded'
  BY <1>4 DEF AskerHolds, LateIsBounded
<1>7. QED
  BY <1>3, <1>4, <1>5, <1>6 DEF WorkShape

(* A job that ends has no node open, and gives back hidMu if it holds it. *)
LEMMA EndsStep ==
  ASSUME IInv, NEW g \in Goroutine, asked[g] = None, Ends(g), UNCHANGED asked
  PROVE  WorkShape' /\ AskerHolds'
<1> USE ExchangeAssumption DEF IInv, Shape
<1>1. /\ job' = [job EXCEPT ![g] = "none"] /\ todo' = [todo EXCEPT ![g] = <<>>]
      /\ got' = [got EXCEPT ![g] = <<>>] /\ hidMu' = IF hidMu = g THEN None ELSE hidMu
  BY DEF Ends
<1>2. \A k \in Goroutine \ {g} : job'[k] = job[k] /\ todo'[k] = todo[k] /\ got'[k] = got[k]
  BY <1>1
<1>3. job'[g] = "none" /\ todo'[g] = <<>> /\ got'[g] = <<>>
  BY <1>1
<1>4. todo' \in [Goroutine -> Seq(Question)] /\ got' \in [Goroutine -> Seq(Outcome)]
  BY <1>1
<1>5. hidMu' \in Goroutine \cup {None} /\ job' \in [Goroutine -> Job \cup {"none"}]
  BY <1>1
<1>6. JobsProgress' /\ SettingsOnly'
  <2>1. JobsProgress'
    BY <1>2, <1>3 DEF JobsProgress
  <2>2. SettingsOnly'
    BY <1>2, <1>3 DEF SettingsOnly
  <2>3. QED
    BY <2>1, <2>2
<1>7. AskerHolds'
  <2>1. ASSUME NEW k \in Goroutine, asked[k] # None
        PROVE  /\ hidMu' = k /\ job'[k] # "none" /\ ~Done(k)'
               /\ asked'[k] = todo'[k][1].head
    <3>1. k # g /\ hidMu = k /\ job[k] # "none" /\ ~Done(k) /\ asked[k] = todo[k][1].head
      BY <2>1 DEF AskerHolds
    <3>2. ~Done(k)'
      BY <1>2, <3>1 DEF Done
    <3>3. QED
      BY <1>1, <1>2, <3>1, <3>2
  <2>2. QED
    BY <2>1 DEF AskerHolds
<1>8. QED
  BY <1>4, <1>5, <1>6, <1>7 DEF WorkShape

(* What a setting is taken for, the byte that came or the old belief. *)
LEMMA OldType ==
  ASSUME IInv, NEW g \in Goroutine, job[g] \in {"sync", "reconcile"}, Len(got[g]) = 3,
         NEW i \in 1 .. 3, NEW s \in Setting
  PROVE  Old(i, s, g) \in Nat
BY DEF IInv, Shape, Old, Value, SettingsOnly

(* Jobs that end, and the reconcile that goes on to its other two queries. *)
LEMMA ConcludeStep ==
  ASSUME IInv, NEW g \in Goroutine, Conclude(g)
  PROVE  IInv'
<1> USE ExchangeAssumption DEF IInv, Shape
<1>1. UNCHANGED <<wire, asked>>
  BY DEF Conclude, Refuse, Adopt, Verify, StorePower, Finish, memory
<1>2. asked[g] = None
  <2>1. CASE Refuse(g) \/ StorePower(g) \/ Finish(g)
    BY <2>1 DEF Refuse, StorePower, Finish, AskerHolds
  <2>2. CASE Verify(g)
    BY <2>2 DEF Verify, AskerHolds, Done
  <2>3. CASE Adopt(g)
    <3>1. todo[g] # <<>> => Len(todo[g]) \in Nat \ {0}
      OBVIOUS
    <3>2. Len(got[g]) = 3 /\ job[g] \in {"sync", "reconcile"}
      BY <2>3 DEF Adopt
    <3>3. Len(got[g]) + Len(todo[g]) = 3 \/ Len(got[g]) + Len(todo[g]) = 1
      BY <3>2, Zenon DEF JobsProgress
    <3>4. todo[g] = <<>>
      BY <3>1, <3>2, <3>3
    <3>5. QED
      BY <3>4 DEF AskerHolds, Done
  <2>4. QED
    BY <2>1, <2>2, <2>3 DEF Conclude
<1>3. AnswersAreAwaited' /\ LateIsBounded'
  BY <1>1 DEF AnswersAreAwaited, LateIsBounded
<1>4. camera' \in [Setting \cup {"battery"} -> Nat]
  BY DEF Conclude, Refuse, Adopt, Verify, StorePower, Finish, Setting
<1>5. belief' \in [Setting -> Nat]
  <2>1. CASE Adopt(g)
    <3>1. job[g] \in {"sync", "reconcile"} /\ Len(got[g]) = 3
      BY <2>1 DEF Adopt
    <3>2. /\ Old(1, "tracking", g) \in Nat /\ Old(2, "audio", g) \in Nat
          /\ Old(3, "gesture", g) \in Nat
      BY <3>1, OldType DEF Setting
    <3>3. belief["tracking"] \in Nat
      BY DEF Setting
    <3>4. QED
      BY <2>1, <3>2, <3>3 DEF Adopt, Setting
  <2>2. CASE ~Adopt(g)
    BY <2>2 DEF Conclude, Refuse, Verify, StorePower, Finish, memory
  <2>3. QED
    BY <2>1, <2>2
<1>6. WorkShape' /\ AskerHolds'
  <2>1. CASE Ends(g)
    BY <1>1, <1>2, <2>1, EndsStep
  <2>2. CASE /\ job[g] = "reconcile" /\ Len(got[g]) = 1 /\ UNCHANGED <<job, got, hidMu>>
             /\ todo' = [todo EXCEPT ![g] = <<Query("audio"), Query("gesture")>>]
    <3>1. DEFINE Rest == <<Query("audio"), Query("gesture")>>
    <3>2. Rest \in [1 .. 2 -> Question]
      BY HeadNames DEF Query, Question, Heads, Setting
    <3>3. Rest \in Seq(Question) /\ Len(Rest) = 2
      BY <3>2, FunctionIsSeq
    <3>4. \A i \in 1 .. 2 : Rest[i].head \in Setting
      BY DEF Query, Setting
    <3>5. todo' \in [Goroutine -> Seq(Question)] /\ todo'[g] = Rest
          /\ \A k \in Goroutine \ {g} : todo'[k] = todo[k]
      BY <2>2, <3>3
    <3> HIDE DEF Rest
    <3>6. JobsProgress'
      <4>1. 3 <= Slots + 4
        OBVIOUS
      <4>2. Len(got'[g]) + Len(todo'[g]) = 3 /\ job'[g] = "reconcile"
        <5>1. Len(got'[g]) = 1 /\ Len(todo'[g]) = 2 /\ job'[g] = "reconcile"
          BY <2>2, <3>3, <3>5
        <5>2. QED
          BY <5>1
      <4>3. QED
        BY <2>2, <3>5, <4>1, <4>2 DEF JobsProgress
    <3>7. SettingsOnly'
      BY <2>2, <3>3, <3>4, <3>5 DEF SettingsOnly
    <3>8. AskerHolds'
      <4>1. ASSUME NEW k \in Goroutine, asked[k] # None
            PROVE  /\ hidMu' = k /\ job'[k] # "none" /\ ~Done(k)'
                   /\ asked'[k] = todo'[k][1].head
        <5>1. k # g /\ hidMu = k /\ job[k] # "none" /\ ~Done(k) /\ asked[k] = todo[k][1].head
          BY <1>2, <4>1 DEF AskerHolds
        <5>2. ~Done(k)'
          BY <2>2, <3>5, <5>1 DEF Done
        <5>3. QED
          BY <1>1, <2>2, <3>5, <5>1, <5>2
      <4>2. QED
        BY <1>1, <4>1 DEF AskerHolds
    <3>9. QED
      BY <2>2, <3>5, <3>6, <3>7, <3>8 DEF WorkShape
  <2>3. QED
    BY <2>1, <2>2 DEF Conclude, Refuse, Adopt, Verify, StorePower, Finish
<1>7. QED
  BY <1>1, <1>3, <1>4, <1>5, <1>6 DEF WorkShape

(* A job that starts has its queries before it and has asked none. *)
LEMMA StartStep ==
  ASSUME IInv, NEW g \in Goroutine, NEW j \in Job, Start(g, j)
  PROVE  IInv'
<1> USE ExchangeAssumption DEF IInv, Shape
<1>1. /\ UNCHANGED <<camera, wire, belief, hidMu, asked, got>>
      /\ job[g] = "none" /\ job' = [job EXCEPT ![g] = j]
      /\ todo' = [todo EXCEPT ![g] = Queries(j)]
  BY DEF Start, memory
<1>2. \A k \in Goroutine \ {g} : job'[k] = job[k] /\ todo'[k] = todo[k]
  BY <1>1
<1>3. job'[g] = j /\ todo'[g] = Queries(j) /\ got'[g] = <<>> /\ j # "none"
  BY <1>1 DEF JobsProgress, Job
<1>4. Shape'
  <2>1. todo' \in [Goroutine -> Seq(Question)]
    BY <1>1, QueriesType
  <2>2. QED
    BY <1>1, <2>1
<1>5. AskerHolds'
  <2>1. ASSUME NEW k \in Goroutine, asked[k] # None
        PROVE  /\ hidMu' = k /\ job'[k] # "none" /\ ~Done(k)'
               /\ asked'[k] = todo'[k][1].head
    <3>1. k # g /\ hidMu = k /\ job[k] # "none" /\ ~Done(k) /\ asked[k] = todo[k][1].head
      BY <1>1, <2>1 DEF AskerHolds
    <3>2. ~Done(k)'
      BY <1>1, <1>2, <3>1 DEF Done
    <3>3. QED
      BY <1>1, <1>2, <3>1, <3>2
  <2>2. QED
    BY <1>1, <2>1 DEF AskerHolds
<1>6. JobsProgress'
  <2>1. Len(got'[g]) = 0
    BY <1>3
  <2>2. /\ j = "sync" => Len(got'[g]) + Len(todo'[g]) = 3
        /\ j = "reconcile" => Len(got'[g]) + Len(todo'[g]) \in {1, 3}
        /\ Len(got'[g]) + Len(todo'[g]) <= Slots + 4
    <3>1. /\ Queries(j) \in Seq(Question) /\ Len(Queries(j)) <= Slots + 4
          /\ j = "sync" => Len(Queries(j)) = 3
          /\ j = "reconcile" => Len(Queries(j)) = 1
      BY QueriesType
    <3>2. Len(got'[g]) + Len(todo'[g]) = Len(Queries(j))
      BY <1>3, <2>1, <3>1
    <3>3. QED
      BY <3>1, <3>2
  <2>3. QED
    BY <1>1, <1>2, <1>3, <2>2 DEF JobsProgress
<1>7. SettingsOnly'
  BY <1>1, <1>2, <1>3, QueriesType DEF SettingsOnly
<1>8. AnswersAreAwaited' /\ LateIsBounded'
  BY <1>1 DEF AnswersAreAwaited, LateIsBounded
<1>9. QED
  BY <1>4, <1>5, <1>6, <1>7, <1>8

(* A goroutine locks only a mutex that is free, so nobody asks. *)
LEMMA LockStep ==
  ASSUME IInv, NEW g \in Goroutine, Lock(g)
  PROVE  IInv'
<1>1. hidMu = None /\ hidMu' = g /\ UNCHANGED <<camera, wire, belief, asked, job, todo, got>>
  BY DEF Lock, memory, work
<1>2. \A k \in Goroutine : asked[k] = None
  BY <1>1, ExchangeAssumption DEF IInv, AskerHolds, Goroutine
<1>3. Shape'
  BY <1>1 DEF IInv, Shape
<1>4. AskerHolds' /\ AnswersAreAwaited' /\ JobsProgress' /\ SettingsOnly' /\ LateIsBounded'
  BY <1>1, <1>2
  DEF IInv, AskerHolds, AnswersAreAwaited, JobsProgress, SettingsOnly, LateIsBounded
<1>5. QED
  BY <1>3, <1>4 DEF IInv

(* The camera and its settings may change, reports get lost. *)
LEMMA CameraStep ==
  ASSUME IInv, Drop \/ CameraChanges \/ Command \/ Replug \/ Expire
  PROVE  IInv'
<1> USE ExchangeAssumption DEF IInv, Shape
<1>1. UNCHANGED <<hidMu, asked, job, todo, got>>
  BY DEF Drop, CameraChanges, Command, Replug, Expire, work
<1>2. camera' \in [Setting \cup {"battery"} -> Nat] /\ belief' \in [Setting -> Nat]
  <2>1. CASE Command
    <3>1. PICK s \in Setting, k \in CameraStates :
            camera' = [camera EXCEPT ![s] = k[s]] /\ belief' = [belief EXCEPT ![s] = k[s]]
      BY <2>1 DEF Command
    <3>2. k[s] \in Nat
      OBVIOUS
    <3>3. QED
      BY <3>1, <3>2
  <2>2. CASE Drop \/ CameraChanges \/ Replug \/ Expire
    BY <2>2 DEF Drop, CameraChanges, Replug, Expire, memory
  <2>3. QED
    BY <2>1, <2>2
<1>3. /\ wire' \in Seq(Report) /\ Len(wire') <= Len(wire)
      /\ \A i \in 1 .. Len(wire') : \E j \in 1 .. Len(wire) : wire'[i] = wire[j]
  <2>1. CASE Drop
    <3>1. wire # <<>> /\ wire' = Tail(wire)
      BY <2>1 DEF Drop
    <3>2. QED
      BY <3>1, FirstAndRest
  <2>2. CASE Replug
    <3>1. wire' = <<>> /\ Len(wire) \in Nat
      BY <2>2 DEF Replug
    <3>2. QED
      BY <3>1
  <2>3. CASE CameraChanges \/ Command \/ Expire
    <3>1. wire' = wire /\ Len(wire) \in Nat
      BY <2>3 DEF CameraChanges, Command, Expire
    <3>2. QED
      BY <3>1
  <2>4. QED
    BY <2>1, <2>2, <2>3
<1>4. AnswersAreAwaited' /\ LateIsBounded'
  <2>1. Len(wire) \in Nat /\ Len(wire') \in Nat
    BY <1>3
  <2>2. LateIsBounded'
    BY <1>1, <1>3, <2>1 DEF LateIsBounded
  <2>3. ASSUME NEW i \in 1 .. Len(wire'), wire'[i].of # None PROVE asked'[wire'[i].of] # None
    <3>1. PICK j \in 1 .. Len(wire) : wire'[i] = wire[j]
      BY <1>3
    <3>2. QED
      BY <1>1, <2>3, <3>1 DEF AnswersAreAwaited
  <2>4. QED
    BY <2>2, <2>3 DEF AnswersAreAwaited
<1>5. AskerHolds'
  BY <1>1 DEF AskerHolds, Done
<1>6. JobsProgress' /\ SettingsOnly'
  BY <1>1 DEF JobsProgress, SettingsOnly
<1>7. QED
  BY <1>1, <1>2, <1>3, <1>4, <1>5, <1>6

(* The pieces together. *)
LEMMA Invariant == Spec => []IInv
<1>1. ASSUME IInv, [Next]_vars PROVE IInv'
  <2>1. ASSUME NEW g \in Goroutine, NEW j \in Jobs(g), Start(g, j) PROVE IInv'
    <3>1. j \in Job
      BY DEF Jobs, Job
    <3>2. QED
      BY <1>1, <2>1, <3>1, StartStep
  <2>2. ASSUME NEW g \in Goroutine, Lock(g) \/ Exchange(g) \/ Conclude(g) PROVE IInv'
    BY <1>1, <2>2, LockStep, AskStep, ExchangeEndsStep, ConcludeStep DEF Exchange
  <2>3. CASE UNCHANGED vars
    BY <1>1, <2>3
    DEF vars, memory, work, IInv, Shape, AskerHolds, AnswersAreAwaited, JobsProgress,
        SettingsOnly, LateIsBounded, Done
  <2>4. QED
    BY <1>1, <2>1, <2>2, <2>3, CameraStep DEF Next
<1>2. QED
  BY <1>1, InitIInv, PTL DEF Spec

(* The variables keep their types, and no job collects more than it asks for. *)
THEOREM TypeCorrect == Spec => []TypeOK
<1>1. IInv => TypeOK
  <2> SUFFICES ASSUME IInv PROVE TypeOK
    OBVIOUS
  <2>1. \A i \in DOMAIN wire : wire[i].head \in Heads /\ wire[i].of \in Goroutine \cup {None}
    BY FieldTypes DEF IInv, Shape
  <2>2. \A g \in Goroutine : \/ job[g] = "none" /\ asked[g] = None
                             \/ Len(got[g]) + Len(todo[g]) <= Slots + 4
    BY DEF IInv, JobsProgress, AskerHolds
  <2>3. QED
    BY <2>1, <2>2 DEF IInv, Shape, LateIsBounded, TypeOK
<1>2. QED
  BY <1>1, Invariant, PTL

(* However many goroutines question the camera and however late it answers,   *)
(* nobody reads the answer another one still waits for (v2Read, SendRecv).    *)
THEOREM AnswersAreNotMixed == Spec => []AnswersMatch
<1>1. IInv => AnswersMatch
  <2> SUFFICES ASSUME IInv, NEW g \in Goroutine, asked[g] # None, wire # <<>>
               PROVE  Head(wire).of \in {g, None}
    BY DEF AnswersMatch
  <2>1. Head(wire) = wire[1] /\ wire[1] \in Report /\ 1 \in 1 .. Len(wire)
    BY FirstAndRest DEF IInv, Shape
  <2>2. hidMu = g
    BY DEF IInv, AskerHolds
  <2>3. ASSUME wire[1].of \notin {g, None} PROVE FALSE
    <3>1. wire[1].of \in Goroutine \ {g}
      BY <2>1, <2>3, FieldTypes
    <3>2. asked[wire[1].of] = None
      BY <2>2, <3>1, OneAsker DEF IInv
    <3>3. QED
      BY <2>1, <2>3, <3>2 DEF IInv, AnswersAreAwaited
  <2>4. QED
    BY <2>1, <2>3
<1>2. QED
  BY <1>1, Invariant, PTL

-----------------------------------------------------------------------------
(* The level the power cache keeps. *)

\* The battery has a level, and says so.
BatterySpeaks ==
    /\ <<camera["battery"]>> \in Levels
    /\ \A i \in 1 .. Len(wire) : wire[i].head = "battery" => wire[i].payload \in Levels

\* A power reading asks for the battery first, and keeps what came of it first.
BatteryFirst ==
    \A g \in Goroutine : job[g] = "power" =>
        IF got[g] = <<>> THEN todo[g] # <<>> /\ todo[g][1].head = "battery"
                         ELSE got[g][1] \in Levels \cup {Failed}

LevelIsTheBatterys == powerCache # None => powerCache.level \in Levels \cup {Failed}

PowerInv == BatterySpeaks /\ BatteryFirst /\ LevelIsTheBatterys

(* What is accepted for the battery's level came from the battery. *)
LEMMA AcceptedLevel ==
  ASSUME Shape, BatterySpeaks, wire # <<>>
  PROVE  Parse("battery", Head(wire)) \in Levels \cup {Failed}
<1>1. Head(wire) = wire[1] /\ 1 \in 1 .. Len(wire)
  BY DEF Shape
<1>2. Parse("battery", Head(wire)) = ParseV2("battery", Head(wire))
  BY DEF Parse, Setting
<1>3. ParseV2("battery", Head(wire)) \in {Failed, Head(wire).payload}
  BY DEF ParseV2
<1>4. ParseV2("battery", Head(wire)) # Failed => Head(wire).head = "battery"
  BY DEF ParseV2, EchoMatches
<1>5. QED
  BY <1>1, <1>2, <1>3, <1>4 DEF BatterySpeaks

(* Settings change without the battery, and no report changes on its way. *)
LEMMA BatteryStep ==
  ASSUME IInv, BatterySpeaks, [Next]_vars
  PROVE  BatterySpeaks'
<1> USE ExchangeAssumption DEF IInv, Shape
<1>1. <<camera'["battery"]>> \in Levels
  <2>1. camera' \in CameraStates \/ camera'["battery"] = camera["battery"]
    <3>1. CASE CameraChanges \/ Replug
      BY <3>1 DEF CameraChanges, Replug
    <3>2. CASE Command
      BY <3>2 DEF Command, Setting
    <3>3. ASSUME NEW g \in Goroutine, Conclude(g) PROVE camera'["battery"] = camera["battery"]
      BY <3>3 DEF Conclude, Refuse, Adopt, Verify, StorePower, Finish, Setting
    <3>4. ASSUME NEW g \in Goroutine, Lock(g) \/ Exchange(g) \/ \E j \in Jobs(g) : Start(g, j)
          PROVE  camera' = camera
      BY <3>4 DEF Lock, Exchange, Ask, AskFails, Accept, TimeOut, Start
    <3>5. CASE Drop \/ Expire \/ UNCHANGED vars
      BY <3>5 DEF Drop, Expire, vars
    <3>6. QED
      BY <3>1, <3>2, <3>3, <3>4, <3>5 DEF Next
  <2>2. QED
    BY <2>1 DEF BatterySpeaks, Levels
<1>2. ASSUME NEW g \in Goroutine, Ask(g)
      PROVE  \A i \in 1 .. Len(wire') : wire'[i].head = "battery" => wire'[i].payload \in Levels
  <2>1. CASE wire' = wire
    BY <2>1 DEF BatterySpeaks
  <2>2. CASE wire' # wire
    <3>1. todo[g] \in Seq(Question) /\ todo[g] # <<>>
      BY <1>2 DEF Ask, Turn, Done
    <3>2. Head(todo[g]) \in Question
      BY <3>1, FirstAndRest
    <3>3. PICK p \in Reply(Head(todo[g])) :
            wire' = Append(wire, [head |-> Head(todo[g]).head, payload |-> p, of |-> g])
      BY <1>2, <2>2 DEF Ask
    <3>4. Head(todo[g]).head = "battery" => p \in Levels
      BY DEF Reply, BatterySpeaks
    <3>5. \A i \in 1 .. Len(wire') :
             \/ i \in 1 .. Len(wire) /\ wire'[i] = wire[i]
             \/ wire'[i] = [head |-> Head(todo[g]).head, payload |-> p, of |-> g]
      BY <3>3
    <3>6. ASSUME NEW i \in 1 .. Len(wire'), wire'[i].head = "battery"
          PROVE  wire'[i].payload \in Levels
      <4>1. CASE i \in 1 .. Len(wire) /\ wire'[i] = wire[i]
        BY <3>6, <4>1 DEF BatterySpeaks
      <4>2. CASE wire'[i] = [head |-> Head(todo[g]).head, payload |-> p, of |-> g]
        BY <3>4, <3>6, <4>2
      <4>3. QED
        BY <3>5, <4>1, <4>2
    <3>7. QED
      BY <3>6
  <2>3. QED
    BY <2>1, <2>2
<1>3. ASSUME NEW g \in Goroutine, AskFails(g) \/ Accept(g) \/ TimeOut(g)
      PROVE  \A i \in 1 .. Len(wire') : \E j \in 1 .. Len(wire) :
                wire'[i].head = wire[j].head /\ wire'[i].payload = wire[j].payload
  <2>1. ASSUME NEW left \in Seq(Report), Close(g, left),
               \A i \in 1 .. Len(left) : \E j \in 1 .. Len(wire) : left[i] = wire[j]
        PROVE  \A i \in 1 .. Len(wire') : \E j \in 1 .. Len(wire) :
                  wire'[i].head = wire[j].head /\ wire'[i].payload = wire[j].payload
    <3>1. Len(left) \in Nat /\ DOMAIN left = 1 .. Len(left)
      OBVIOUS
    <3>2. wire' = [i \in 1 .. Len(left) |->
                     IF left[i].of = g THEN [left[i] EXCEPT !.of = None] ELSE left[i]]
      BY <2>1, <3>1 DEF Close
    <3>3. \A i \in 1 .. Len(left) : left[i] \in Report
      BY <3>1
    <3>4. ASSUME NEW i \in 1 .. Len(left)
          PROVE  /\ wire'[i].head = left[i].head /\ wire'[i].payload = left[i].payload
                 /\ wire'[i] \in Report
      BY <3>2, <3>3 DEF Report
    <3>5. wire' \in [1 .. Len(left) -> Report]
      BY <3>2, <3>4
    <3>6. Len(wire') = Len(left)
      BY <3>1, <3>5, FunctionIsSeq
    <3>7. ASSUME NEW i \in 1 .. Len(wire')
          PROVE  \E j \in 1 .. Len(wire) :
                    wire'[i].head = wire[j].head /\ wire'[i].payload = wire[j].payload
      <4>1. PICK j \in 1 .. Len(wire) : left[i] = wire[j]
        BY <2>1, <3>6
      <4>2. QED
        BY <3>4, <3>6, <4>1
    <3>8. QED
      BY <3>7
  <2>2. CASE wire # <<>> /\ Close(g, Tail(wire))
    <3>1. Tail(wire) \in Seq(Report)
          /\ \A i \in 1 .. Len(Tail(wire)) : \E j \in 1 .. Len(wire) : Tail(wire)[i] = wire[j]
      BY <2>2, FirstAndRest
    <3>2. QED
      BY <2>1, <2>2, <3>1
  <2>3. CASE Close(g, wire)
    BY <2>1, <2>3
  <2>4. CASE wire' = wire
    BY <2>4
  <2>5. (wire # <<>> /\ Close(g, Tail(wire))) \/ Close(g, wire) \/ wire' = wire
    BY <1>3 DEF AskFails, Accept, TimeOut
  <2>6. QED
    BY <2>2, <2>3, <2>4, <2>5
<1>4. ASSUME Drop \/ Replug
      PROVE  \A i \in 1 .. Len(wire') : \E j \in 1 .. Len(wire) : wire'[i] = wire[j]
  <2>1. CASE Drop
    BY <2>1, FirstAndRest DEF Drop
  <2>2. CASE Replug
    BY <2>2 DEF Replug
  <2>3. QED
    BY <1>4, <2>1, <2>2
<1>5. CASE UNCHANGED wire
  BY <1>1, <1>5 DEF BatterySpeaks
<1>6. \/ \E g \in Goroutine : Ask(g) \/ AskFails(g) \/ Accept(g) \/ TimeOut(g)
      \/ Drop \/ Replug \/ UNCHANGED wire
  BY DEF Next, Exchange, Conclude, Refuse, Adopt, Verify, StorePower, Finish, Lock, Start,
         CameraChanges, Command, Expire, vars
<1>7. QED
  BY <1>1, <1>2, <1>3, <1>4, <1>5, <1>6 DEF BatterySpeaks

(* Of the values a query of a power reading yields the first is the battery's. *)
LEMMA BatteryFirstStep ==
  ASSUME IInv, BatterySpeaks, BatteryFirst, [Next]_vars
  PROVE  BatteryFirst'
<1> USE ExchangeAssumption DEF IInv, Shape
<1>1. ASSUME NEW g \in Goroutine, NEW j \in Jobs(g), Start(g, j) PROVE BatteryFirst'
  <2>1. job' = [job EXCEPT ![g] = j] /\ todo' = [todo EXCEPT ![g] = Queries(j)]
        /\ got' = got /\ got[g] = <<>>
    BY <1>1 DEF Start, JobsProgress
  <2>2. j = "power" => Queries(j) # <<>> /\ Queries(j)[1].head = "battery"
    BY DEF Queries, Query, Power
  <2>3. QED
    BY <2>1, <2>2 DEF BatteryFirst
<1>2. ASSUME NEW g \in Goroutine, AskFails(g) \/ Accept(g) \/ TimeOut(g) PROVE BatteryFirst'
  <2>1. PICK value : /\ Yields(g, value)
                     /\ value = Failed \/ (Accept(g) /\ value = Parse(asked[g], Head(wire)))
    BY <1>2 DEF AskFails, Accept, TimeOut
  <2>2. job' = job
    BY <1>2 DEF AskFails, Accept, TimeOut
  <2>3. CASE job[g] # "power"
    BY <2>1, <2>2, <2>3 DEF Yields, BatteryFirst
  <2>4. CASE job[g] = "power"
    <3>1. got' = [got EXCEPT ![g] = Append(got[g], value)] /\ todo' = [todo EXCEPT ![g] = Tail(todo[g])]
      BY <2>1, <2>4 DEF Yields
    <3>2. got'[g] = Append(got[g], value) /\ \A k \in Goroutine \ {g} : got'[k] = got[k] /\ todo'[k] = todo[k]
      BY <3>1
    <3>3. got[g] \in Seq(Outcome)
      OBVIOUS
    <3>4. CASE got[g] # <<>>
      <4>1. Append(got[g], value) # <<>> /\ Append(got[g], value)[1] = got[g][1]
        BY <3>3, <3>4
      <4>2. QED
        BY <2>2, <2>4, <3>2, <3>4, <4>1 DEF BatteryFirst
    <3>5. CASE got[g] = <<>>
      <4>1. todo[g][1].head = "battery"
        BY <2>4, <3>5 DEF BatteryFirst
      <4>2. Accept(g) => asked[g] = "battery" /\ wire # <<>>
        BY <4>1 DEF Accept, AskerHolds
      <4>3. value \in Levels \cup {Failed}
        BY <2>1, <4>2, AcceptedLevel
      <4>4. got'[g] # <<>> /\ got'[g][1] = value
        BY <3>2, <3>5
      <4>5. QED
        BY <2>2, <2>4, <3>2, <4>3, <4>4 DEF BatteryFirst
    <3>6. QED
      BY <3>4, <3>5
  <2>5. QED
    BY <2>3, <2>4
<1>3. ASSUME NEW g \in Goroutine, Ends(g) PROVE BatteryFirst'
  <2>1. job'[g] = "none" /\ \A k \in Goroutine \ {g} : job'[k] = job[k] /\ todo'[k] = todo[k] /\ got'[k] = got[k]
    BY <1>3 DEF Ends
  <2>2. QED
    BY <2>1 DEF BatteryFirst
<1>4. ASSUME NEW g \in Goroutine, Verify(g), UNCHANGED <<job, got>> PROVE BatteryFirst'
  <2>1. job[g] = "reconcile" /\ \A k \in Goroutine \ {g} : todo'[k] = todo[k]
    BY <1>3, <1>4 DEF Verify, Ends
  <2>2. QED
    BY <1>4, <2>1 DEF BatteryFirst
<1>5. CASE UNCHANGED work
  BY <1>5 DEF work, BatteryFirst
<1>6. \/ \E g \in Goroutine : \/ \E j \in Jobs(g) : Start(g, j)
                              \/ AskFails(g) \/ Accept(g) \/ TimeOut(g) \/ Ends(g)
                              \/ Verify(g) /\ UNCHANGED <<job, got>>
      \/ UNCHANGED work
  BY DEF Next, Exchange, Conclude, Refuse, Adopt, Verify, StorePower, Finish, Lock, Ask,
         CameraChanges, Command, Expire, Drop, Replug, vars
<1>7. QED
  BY <1>1, <1>2, <1>3, <1>4, <1>5, <1>6

(* A reading is stored when the battery has been asked, so its level is what   *)
(* the battery answered.                                                       *)
LEMMA LevelStep ==
  ASSUME IInv, BatteryFirst, LevelIsTheBatterys, [Next]_vars
  PROVE  LevelIsTheBatterys'
<1>1. ASSUME NEW g \in Goroutine, StorePower(g) PROVE LevelIsTheBatterys'
  <2>1. job[g] = "power" /\ Done(g) /\ powerCache'.level = Value(g, 1)
    BY <1>1 DEF StorePower
  <2>2. CASE got[g] = <<>>
    <3>1. ~Done(g)
      BY <2>1, <2>2 DEF BatteryFirst, Done
    <3>2. QED
      BY <2>1, <3>1
  <2>3. CASE got[g] # <<>>
    <3>1. got[g] \in Seq(Outcome) /\ 1 <= Len(got[g])
      BY <2>3 DEF IInv, Shape
    <3>2. Value(g, 1) = got[g][1]
      BY <3>1 DEF Value
    <3>3. QED
      BY <2>1, <2>3, <3>2 DEF BatteryFirst, LevelIsTheBatterys
  <2>4. QED
    BY <2>2, <2>3
<1>2. CASE Replug \/ Expire
  BY <1>2 DEF Replug, Expire, LevelIsTheBatterys
<1>3. CASE UNCHANGED powerCache
  BY <1>3 DEF LevelIsTheBatterys
<1>4. (\E g \in Goroutine : StorePower(g)) \/ Replug \/ Expire \/ UNCHANGED powerCache
  BY DEF Next, Exchange, Conclude, Refuse, Adopt, Verify, Finish, Lock, Start, Ask, AskFails,
         Accept, TimeOut, CameraChanges, Command, Drop, vars, memory
<1>5. QED
  BY <1>1, <1>2, <1>3, <1>4

(* What a V2 parser accepts answers the same command, and the level that is    *)
(* kept and shown is one the battery had, however late and in whatever order   *)
(* answers come (v2EchoMatches, powerStatus).                                  *)
THEOREM V2ReadingsAreOwn == Spec => []ReadingsAreOwn
<1>1. Init => PowerInv
  BY ExchangeAssumption DEF Init, PowerInv, BatterySpeaks, BatteryFirst, LevelIsTheBatterys, Levels
<1>2. ASSUME IInv, PowerInv, [Next]_vars PROVE PowerInv'
  BY <1>2, BatteryStep, BatteryFirstStep, LevelStep DEF PowerInv
<1>3. PowerInv => ReadingsAreOwn
  BY HeadNames DEF PowerInv, LevelIsTheBatterys, ReadingsAreOwn, AcceptsOwn, Parse, ParseV2,
                   EchoMatches
<1>4. QED
  BY <1>1, <1>2, <1>3, Invariant, PTL DEF Spec
=============================================================================
