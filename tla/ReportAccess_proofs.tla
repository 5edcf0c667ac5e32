------------------------- MODULE ReportAccess_proofs -------------------------
(***************************************************************************)
(* Theorems about ReportAccess, for any namespaces, clients and number of  *)
(* phases: reads under the lock are safe, and verdicts are snapshots.      *)
(*                                                                         *)
(* The argument is a proof outline of the straight-line code.  A mode is   *)
(* what a goroutine has in hand between two operations, Legal is what each *)
(* operation needs and leaves, and code that Takes a goroutine from one    *)
(* mode to another can be cut at any operation and joined where modes      *)
(* meet.  The invariant says that every goroutine is at a place of such an *)
(* outline, and that the mutexes and the maps agree with its mode.         *)
(***************************************************************************)
EXTENDS ReportAccess, SequenceTheorems, TLAPS

Ops == [name : OpNames, on : Mutexes \cup Maps]

(* A mode: for each mutex, "none", "pending" (announced), "writing",       *)
(* "waiting" (queued up to read) or "reading"; the map being assigned to,  *)
(* if any; and whether the goroutine is on its way to a verdict.           *)
Modes ==
    {a \in [lock : [Mutexes -> {"none", "pending", "writing", "waiting", "reading"}],
            assign : Maps \cup {"no"}, verdict : {"no", "sought"}] :
        /\ a.assign = "data" => a.lock["report"] = "writing"
        /\ a.assign = "gauges" => a.lock["gauges"] = "writing"
        /\ a.verdict = "sought" => a.lock["report"] = "reading"}

Mode(report, gauges, assign, verdict) ==
    [lock |-> [m \in Mutexes |-> IF m = "report" THEN report ELSE gauges],
     assign |-> assign, verdict |-> verdict]

Idle == Mode("none", "none", "no", "no")

(* The operation moves one mutex from one mode to another.                 *)
Moves(a, o, from, to, b) ==
    /\ o.on \in Mutexes
    /\ a.lock[o.on] = from
    /\ b.lock = [a.lock EXCEPT ![o.on] = to]
    /\ a.assign = "no" /\ b.assign = "no" /\ a.verdict = "no" /\ b.verdict = "no"

Legal(a, o, b) ==
    \/ o.name = "announce" /\ Moves(a, o, "none", "pending", b)
    \/ o.name = "enter" /\ Moves(a, o, "pending", "writing", b)
    \/ o.name = "unlock" /\ Moves(a, o, "writing", "none", b)
    \/ o.name = "rlock" /\ Moves(a, o, "none", "reading", b)
    \/ o.name = "queued" /\ Moves(a, o, "waiting", "reading", b)
    \/ o.name = "runlock" /\ Moves(a, o, "reading", "none", b)
    \/ /\ \/ o.name \in {"open", "settle"} /\ o.on = "data"
          \/ o.name = "assign" /\ o.on = "gauges"
       /\ a.assign = "no" /\ b.assign = o.on
       /\ b.lock = a.lock /\ a.verdict = "no" /\ b.verdict = "no"
    \/ /\ o.name = "assigned" /\ o.on \in Maps
       /\ a.assign = o.on /\ b.assign = "no"
       /\ b.lock = a.lock /\ a.verdict = "no" /\ b.verdict = "no"
    \/ /\ o.name = "range" /\ o.on \in Maps
       /\ b.verdict = "sought" => o.on = "data"
       /\ b.lock = a.lock /\ a.assign = "no" /\ b.assign = "no" /\ a.verdict = "no"
    \/ /\ o.name = "visit" /\ o.on \in Maps
       /\ b.lock = a.lock /\ a.assign = "no" /\ b.assign = "no" /\ a.verdict = "no" /\ b.verdict = "no"
    \/ /\ o.name = "check" /\ o.on = "data"
       /\ b.lock = a.lock /\ a.assign = "no" /\ b.assign = "no" /\ a.verdict = "sought" /\ b.verdict = "no"

(* The sequence of operations takes a goroutine from mode a to mode c: h   *)
(* is the outline, h[i] the mode before the i-th operation.                *)
Outline(a, s, c, h) ==
    /\ h \in [1..(Len(s) + 1) -> Modes]
    /\ h[1] = a
    /\ h[Len(s) + 1] = c
    /\ \A i \in 1..Len(s) : Legal(h[i], s[i], h[i + 1])

Takes(a, s, c) == s \in Seq(Ops) /\ \E h : Outline(a, s, c, h)

-----------------------------------------------------------------------------
(* Outlines: the empty one, one operation, joining two, cutting off one.   *)
LEMMA NothingTakes == ASSUME NEW a \in Modes PROVE Takes(a, <<>>, a)
<1>1. Outline(a, <<>>, a, [i \in 1..1 |-> a])
  BY DEF Outline
<1> QED BY <1>1 DEF Takes

LEMMA EmptyTakes == ASSUME NEW a, NEW c, Takes(a, <<>>, c) PROVE a = c
  BY DEF Takes, Outline

LEMMA OpTakes ==
  ASSUME NEW a \in Modes, NEW b \in Modes, NEW o \in Ops, Legal(a, o, b)
  PROVE  Takes(a, <<o>>, b)
<1> DEFINE h == [i \in 1..2 |-> IF i = 1 THEN a ELSE b]
<1>1. <<o>> \in Seq(Ops) /\ Len(<<o>>) = 1 /\ <<o>>[1] = o
  OBVIOUS
<1>2. h \in [1..(Len(<<o>>) + 1) -> Modes] /\ h[1] = a /\ h[Len(<<o>>) + 1] = b
  BY <1>1
<1>3. ASSUME NEW i \in 1..Len(<<o>>) PROVE Legal(h[i], <<o>>[i], h[i + 1])
  <2>1. i = 1 /\ h[i] = a /\ h[i + 1] = b
    BY <1>1
  <2> QED BY <1>1, <2>1
<1>4. Outline(a, <<o>>, b, h)
  BY <1>2, <1>3 DEF Outline
<1> QED BY <1>1, <1>4 DEF Takes

LEMMA JoinTakes ==
  ASSUME NEW a, NEW b, NEW c, NEW s, NEW t, Takes(a, s, b), Takes(b, t, c)
  PROVE  Takes(a, s \o t, c)
<1>1. s \in Seq(Ops) /\ t \in Seq(Ops) /\ Len(s) \in Nat /\ Len(t) \in Nat
  BY LenProperties DEF Takes
<1>2. PICK g : Outline(a, s, b, g)
  BY DEF Takes
<1>3. PICK k : Outline(b, t, c, k)
  BY DEF Takes
<1> DEFINE st == s \o t
           h == [i \in 1..(Len(st) + 1) |-> IF i <= Len(s) THEN g[i] ELSE k[i - Len(s)]]
<1>4. /\ st \in Seq(Ops) /\ Len(st) = Len(s) + Len(t)
      /\ \A i \in 1..Len(st) : st[i] = IF i <= Len(s) THEN s[i] ELSE t[i - Len(s)]
  BY <1>1, ConcatProperties
<1> HIDE DEF st
<1>5. \A i \in 1..(Len(s) + 1) : g[i] \in Modes
  BY <1>2 DEF Outline
<1>6. \A i \in 1..(Len(t) + 1) : k[i] \in Modes
  BY <1>3 DEF Outline
<1>7. /\ g[1] = a /\ g[Len(s) + 1] = b /\ k[1] = b /\ k[Len(t) + 1] = c
      /\ \A i \in 1..Len(s) : Legal(g[i], s[i], g[i + 1])
      /\ \A i \in 1..Len(t) : Legal(k[i], t[i], k[i + 1])
  BY <1>2, <1>3 DEF Outline
<1>8. h \in [1..(Len(st) + 1) -> Modes]
  BY <1>1, <1>4, <1>5, <1>6
<1>9. h[1] = a /\ h[Len(st) + 1] = c
  BY <1>1, <1>4, <1>7
<1>10. ASSUME NEW i \in 1..Len(st) PROVE Legal(h[i], st[i], h[i + 1])
  <2>1. CASE i <= Len(s)
    <3>1. i \in 1..Len(s) /\ h[i] = g[i] /\ st[i] = s[i]
      BY <1>1, <1>4, <2>1
    <3>2. h[i + 1] = g[i + 1]
      BY <1>1, <1>4, <1>7, <2>1
    <3> QED BY <1>7, <3>1, <3>2
  <2>2. CASE i > Len(s)
    <3>1. i - Len(s) \in 1..Len(t) /\ h[i] = k[i - Len(s)] /\ st[i] = t[i - Len(s)]
          /\ h[i + 1] = k[(i - Len(s)) + 1]
      BY <1>1, <1>4, <2>2
    <3> QED BY <1>7, <3>1
  <2> QED BY <1>1, <1>4, <2>1, <2>2
<1>11. Outline(a, st, c, h)
  BY <1>8, <1>9, <1>10 DEF Outline
<1> QED BY <1>4, <1>11 DEF Takes, st

LEMMA FirstTakes ==
  ASSUME NEW a, NEW c, NEW s, Takes(a, s, c), s # <<>>
  PROVE  /\ Head(s) \in Ops /\ Tail(s) \in Seq(Ops) /\ a \in Modes
         /\ \E b \in Modes : Legal(a, Head(s), b) /\ Takes(b, Tail(s), c)
<1>1. s \in Seq(Ops) /\ Len(s) \in Nat \ {0}
  BY LenProperties, EmptySeq DEF Takes
<1>2. PICK g : Outline(a, s, c, g)
  BY DEF Takes
<1> DEFINE t == Tail(s)
           h == [i \in 1..(Len(t) + 1) |-> g[i + 1]]
<1>3. /\ Head(s) = s[1] /\ Head(s) \in Ops /\ t \in Seq(Ops) /\ Len(t) = Len(s) - 1
      /\ \A i \in 1..Len(t) : t[i] = s[i + 1]
  BY <1>1, HeadTailProperties, ElementOfSeq
<1> HIDE DEF t
<1>4. /\ g[1] = a /\ g[Len(s) + 1] = c
      /\ \A i \in 1..(Len(s) + 1) : g[i] \in Modes
      /\ \A i \in 1..Len(s) : Legal(g[i], s[i], g[i + 1])
  BY <1>2 DEF Outline
<1>5. h \in [1..(Len(t) + 1) -> Modes] /\ h[1] = g[2] /\ h[Len(t) + 1] = c
  BY <1>1, <1>3, <1>4
<1>6. ASSUME NEW i \in 1..Len(t) PROVE Legal(h[i], t[i], h[i + 1])
  <2>1. i + 1 \in 1..Len(s) /\ h[i] = g[i + 1] /\ h[i + 1] = g[(i + 1) + 1] /\ t[i] = s[i + 1]
    BY <1>1, <1>3
  <2> QED BY <1>4, <2>1
<1>7. Outline(g[2], t, c, h)
  BY <1>5, <1>6 DEF Outline
<1>8. a \in Modes /\ g[2] \in Modes /\ Legal(a, Head(s), g[2])
  <2>1. 1 \in 1..(Len(s) + 1) /\ 2 \in 1..(Len(s) + 1) /\ 1 \in 1..Len(s) /\ 1 + 1 = 2
    BY <1>1
  <2> QED BY <1>3, <1>4, <2>1
<1> QED BY <1>3, <1>7, <1>8 DEF Takes, t

-----------------------------------------------------------------------------
(* The outlines of the code.                                               *)
LEMMA OpFields ==
  ASSUME NEW name, NEW on
  PROVE  /\ Op(name, on).name = name /\ Op(name, on).on = on
         /\ name \in OpNames /\ on \in Mutexes \cup Maps => Op(name, on) \in Ops
  BY DEF Op, Ops

LEMMA TwoOps ==
  ASSUME NEW a \in Modes, NEW b \in Modes, NEW c \in Modes, NEW o \in Ops, NEW q \in Ops,
         Legal(a, o, b), Legal(b, q, c)
  PROVE  Takes(a, <<o, q>>, c)
<1>1. <<o, q>> = <<o>> \o <<q>>
  <2>1. /\ <<o>> \in Seq(Ops) /\ <<q>> \in Seq(Ops) /\ <<o, q>> \in Seq(Ops)
        /\ Len(<<o>>) = 1 /\ Len(<<q>>) = 1 /\ Len(<<o, q>>) = 2
        /\ <<o>>[1] = o /\ <<q>>[1] = q /\ <<o, q>>[1] = o /\ <<o, q>>[2] = q
    OBVIOUS
  <2>2. /\ <<o>> \o <<q>> \in Seq(Ops) /\ Len(<<o>> \o <<q>>) = 2
        /\ (<<o>> \o <<q>>)[1] = o /\ (<<o>> \o <<q>>)[2] = q
    BY <2>1, ConcatProperties
  <2>3. \A i \in 1..2 : i = 1 \/ i = 2
    OBVIOUS
  <2> QED BY <2>1, <2>2, <2>3, SeqEqual
<1> QED BY <1>1, OpTakes, JoinTakes

LEMMA ModeType ==
  ASSUME NEW r \in {"none", "pending", "writing", "waiting", "reading"},
         NEW g \in {"none", "pending", "writing", "waiting", "reading"},
         NEW x \in Maps \cup {"no"}, NEW v \in {"no", "sought"},
         x = "data" => r = "writing", x = "gauges" => g = "writing", v = "sought" => r = "reading"
  PROVE  Mode(r, g, x, v) \in Modes
<1> DEFINE f == [m \in Mutexes |-> IF m = "report" THEN r ELSE g]
<1>1. f \in [Mutexes -> {"none", "pending", "writing", "waiting", "reading"}]
  OBVIOUS
<1>2. Mode(r, g, x, v) = [lock |-> f, assign |-> x, verdict |-> v]
  BY DEF Mode
<1>3. f["report"] = r /\ f["gauges"] = g
  BY DEF Mutexes
<1> HIDE DEF f
<1> QED BY <1>1, <1>2, <1>3 DEF Modes

LEMMA LockedTakes ==
  ASSUME NEW m \in Mutexes, NEW body, NEW a \in Modes, NEW w \in Modes,
         a.lock[m] = "none", w.lock = [a.lock EXCEPT ![m] = "writing"],
         a.assign = "no", a.verdict = "no", w.assign = "no", w.verdict = "no",
         Takes(w, body, w)
  PROVE  Takes(a, Locked(m, body), a)
<1> DEFINE p == [lock |-> [a.lock EXCEPT ![m] = "pending"], assign |-> "no", verdict |-> "no"]
           o == Op("announce", m)
           e == Op("enter", m)
           u == Op("unlock", m)
<1>1. o \in Ops /\ e \in Ops /\ u \in Ops
  BY OpFields DEF OpNames
<1>2. /\ p \in Modes /\ p.lock = [a.lock EXCEPT ![m] = "pending"]
      /\ p.assign = "no" /\ p.verdict = "no"
      /\ w.lock = [p.lock EXCEPT ![m] = "writing"] /\ p.lock[m] = "pending"
      /\ a.lock = [w.lock EXCEPT ![m] = "none"] /\ w.lock[m] = "writing"
  <2>1. a.lock \in [Mutexes -> {"none", "pending", "writing", "waiting", "reading"}]
    BY DEF Modes
  <2>2. p.lock \in [Mutexes -> {"none", "pending", "writing", "waiting", "reading"}]
    BY <2>1
  <2>3. p \in Modes
    BY <2>2 DEF Modes
  <2> QED BY <2>1, <2>3
<1> HIDE DEF p
<1>3. Legal(a, o, p) /\ Legal(p, e, w) /\ Legal(w, u, a)
  BY <1>2, OpFields DEF Legal, Moves
<1> HIDE DEF o, e, u
<1>4. Takes(a, <<o, e>>, w) /\ Takes(w, <<u>>, a)
  BY <1>1, <1>2, <1>3, TwoOps, OpTakes
<1>5. Takes(a, (<<o, e>> \o body) \o <<u>>, a)
  BY <1>4, JoinTakes
<1> QED BY <1>5 DEF Locked, o, e, u

LEMMA RLockedTakes ==
  ASSUME NEW m \in Mutexes, NEW body, NEW a \in Modes, NEW r \in Modes,
         a.lock[m] = "none", r.lock = [a.lock EXCEPT ![m] = "reading"],
         a.assign = "no", a.verdict = "no", r.assign = "no", r.verdict = "no",
         Takes(r, body, r)
  PROVE  Takes(a, RLocked(m, body), a)
<1> DEFINE o == Op("rlock", m)
           u == Op("runlock", m)
<1>1. o \in Ops /\ u \in Ops
  BY OpFields DEF OpNames
<1>2. /\ a.lock = [r.lock EXCEPT ![m] = "none"] /\ r.lock[m] = "reading"
  BY DEF Modes
<1>3. Legal(a, o, r) /\ Legal(r, u, a)
  BY <1>2, OpFields DEF Legal, Moves
<1> HIDE DEF o, u
<1>4. Takes(a, <<o>>, r) /\ Takes(r, <<u>>, a)
  BY <1>1, <1>3, OpTakes
<1>5. Takes(a, (<<o>> \o body) \o <<u>>, a)
  BY <1>4, JoinTakes
<1> QED BY <1>5 DEF RLocked, o, u

LEMMA UpdatesTake ==
  /\ Takes(Idle, UpdateProgress, Idle)
  /\ Takes(Idle, SetData, Idle)
  /\ Takes(Idle, SetGauge, Idle)
<1> DEFINE w == Mode("writing", "none", "no", "no")
           d == Mode("writing", "none", "data", "no")
           v == Mode("none", "writing", "no", "no")
           g == Mode("none", "writing", "gauges", "no")
<1>1. Idle \in Modes /\ w \in Modes /\ d \in Modes /\ v \in Modes /\ g \in Modes
  BY ModeType DEF Idle, Maps
<1>2. /\ Op("open", "data") \in Ops /\ Op("settle", "data") \in Ops
      /\ Op("assign", "gauges") \in Ops /\ Op("assigned", "data") \in Ops
      /\ Op("assigned", "gauges") \in Ops
  BY OpFields DEF OpNames, Maps
<1>3. /\ Legal(w, Op("open", "data"), d) /\ Legal(w, Op("settle", "data"), d)
      /\ Legal(d, Op("assigned", "data"), w)
      /\ Legal(v, Op("assign", "gauges"), g) /\ Legal(g, Op("assigned", "gauges"), v)
  <2>1. d.lock = w.lock /\ v.lock = g.lock
    BY DEF Mode
  <2>2. /\ w.assign = "no" /\ v.assign = "no" /\ d.assign = "data" /\ g.assign = "gauges"
        /\ w.verdict = "no" /\ v.verdict = "no" /\ d.verdict = "no" /\ g.verdict = "no"
    BY DEF Mode
  <2> HIDE DEF w, d, v, g
  <2> QED BY <2>1, <2>2, OpFields DEF Legal, Maps
<1>4. /\ Idle.lock["report"] = "none" /\ Idle.lock["gauges"] = "none"
      /\ Idle.assign = "no" /\ Idle.verdict = "no"
      /\ w.lock = [Idle.lock EXCEPT !["report"] = "writing"] /\ w.assign = "no" /\ w.verdict = "no"
      /\ v.lock = [Idle.lock EXCEPT !["gauges"] = "writing"] /\ v.assign = "no" /\ v.verdict = "no"
  BY DEF Idle, Mode, Mutexes
<1> HIDE DEF w, d, v, g
<1>5. /\ Takes(w, <<Op("open", "data"), Op("assigned", "data")>>, w)
      /\ Takes(w, <<Op("settle", "data"), Op("assigned", "data")>>, w)
      /\ Takes(v, <<Op("assign", "gauges"), Op("assigned", "gauges")>>, v)
  BY <1>1, <1>2, <1>3, TwoOps
<1>6. "report" \in Mutexes /\ "gauges" \in Mutexes
  BY DEF Mutexes
<1> QED BY <1>1, <1>4, <1>5, <1>6, LockedTakes DEF UpdateProgress, SetData, SetGauge

(* Iterating a map, with or without its lock; the verdict only with it.    *)
LEMMA IterationTakes ==
  ASSUME NEW r \in {"none", "reading"}, NEW g \in {"none", "reading"}
  PROVE  /\ \A m \in Maps : Takes(Mode(r, g, "no", "no"), EachEntry(m), Mode(r, g, "no", "no"))
         /\ r = "reading" =>
              Takes(Mode(r, g, "no", "no"), AllPassedLocked, Mode(r, g, "no", "no"))
<1> DEFINE a == Mode(r, g, "no", "no")
           v == Mode(r, g, "no", "sought")
<1>1. a \in Modes /\ (r = "reading" => v \in Modes)
  BY ModeType
<1>2. ASSUME NEW m \in Maps
      PROVE  Op("range", m) \in Ops /\ Op("visit", m) \in Ops /\ Op("check", m) \in Ops
  BY OpFields DEF OpNames
<1>3. ASSUME NEW m \in Maps
      PROVE  Legal(a, Op("range", m), a) /\ Legal(a, Op("visit", m), a)
  <2>1. a.assign = "no" /\ a.verdict = "no"
    BY DEF Mode
  <2> HIDE DEF a
  <2> QED BY <2>1, OpFields DEF Legal
<1>4. Legal(a, Op("range", "data"), v) /\ Legal(v, Op("check", "data"), a)
  <2>1. a.assign = "no" /\ a.verdict = "no" /\ v.assign = "no" /\ v.verdict = "sought" /\ v.lock = a.lock
    BY DEF Mode
  <2> HIDE DEF a, v
  <2> QED BY <2>1, OpFields DEF Legal, Maps
<1>5. "data" \in Maps
  BY DEF Maps
<1> HIDE DEF a, v
<1>6. \A m \in Maps : Takes(a, EachEntry(m), a)
  BY <1>1, <1>2, <1>3, TwoOps DEF EachEntry
<1>7. r = "reading" => Takes(a, AllPassedLocked, a)
  BY <1>1, <1>2, <1>4, <1>5, TwoOps DEF AllPassedLocked
<1> QED BY <1>6, <1>7 DEF a

(* What runs under the read lock of the report, alone or below the lock of *)
(* the gauges.                                                             *)
LEMMA ReportReadsTake ==
  ASSUME NEW g \in {"none", "reading"}, NEW body,
         Takes(Mode("reading", g, "no", "no"), body, Mode("reading", g, "no", "no"))
  PROVE  Takes(Mode("none", g, "no", "no"), RLocked("report", body), Mode("none", g, "no", "no"))
<1> DEFINE a == Mode("none", g, "no", "no")
           r == Mode("reading", g, "no", "no")
<1>1. a \in Modes /\ r \in Modes
  BY ModeType
<1>2. /\ a.lock["report"] = "none" /\ r.lock = [a.lock EXCEPT !["report"] = "reading"]
      /\ a.assign = "no" /\ a.verdict = "no" /\ r.assign = "no" /\ r.verdict = "no"
  BY DEF Mode, Mutexes
<1>3. "report" \in Mutexes
  BY DEF Mutexes
<1> HIDE DEF a, r
<1>4. Takes(r, body, r)
  BY DEF r
<1>5. Takes(a, RLocked("report", body), a)
  BY <1>1, <1>2, <1>3, <1>4, RLockedTakes
<1> QED BY <1>5 DEF a

LEMMA ReadsTake ==
  ASSUME NEW g \in {"none", "reading"}
  PROVE  /\ Takes(Mode("none", g, "no", "no"), AllPassed, Mode("none", g, "no", "no"))
         /\ Takes(Mode("none", g, "no", "no"), GetData, Mode("none", g, "no", "no"))
         /\ Takes(Mode("none", g, "no", "no"), SectionPassed, Mode("none", g, "no", "no"))
         /\ Takes(Mode("none", g, "no", "no"), DataSummary, Mode("none", g, "no", "no"))
         /\ Takes(Mode("none", g, "no", "no"), EachEntry("data"), Mode("none", g, "no", "no"))
<1>1. "data" \in Maps
  BY DEF Maps
<1>2. /\ Takes(Mode("none", g, "no", "no"), EachEntry("data"), Mode("none", g, "no", "no"))
      /\ Takes(Mode("reading", g, "no", "no"), EachEntry("data"), Mode("reading", g, "no", "no"))
      /\ Takes(Mode("reading", g, "no", "no"), AllPassedLocked, Mode("reading", g, "no", "no"))
  BY <1>1, IterationTakes
<1>3. Takes(Mode("reading", g, "no", "no"), <<>>, Mode("reading", g, "no", "no"))
  BY ModeType, NothingTakes
<1> QED BY <1>2, <1>3, ReportReadsTake DEF AllPassed, GetData, SectionPassed, DataSummary

LEMMA HandlersTake == \A handler \in Handlers : Takes(Idle, handler, Idle)
<1>1. /\ Takes(Idle, AllPassed, Idle) /\ Takes(Idle, GetData, Idle)
      /\ Takes(Idle, SectionPassed, Idle) /\ Takes(Idle, DataSummary, Idle)
      /\ Takes(Idle, EachEntry("data"), Idle)
  BY ReadsTake DEF Idle
<1>2. Takes(Idle, AllPassed \o SectionPassed \o SectionPassed \o SectionPassed
                            \o DataSummary, Idle)
  <2>1. Takes(Idle, AllPassed \o SectionPassed, Idle)
    BY <1>1, JoinTakes
  <2>2. Takes(Idle, AllPassed \o SectionPassed \o SectionPassed, Idle)
    BY <1>1, <2>1, JoinTakes
  <2>3. Takes(Idle, AllPassed \o SectionPassed \o SectionPassed \o SectionPassed, Idle)
    BY <1>1, <2>2, JoinTakes
  <2> QED BY <1>1, <2>3, JoinTakes
<1>3. Takes(Idle, GetData \o EachEntry("data"), Idle)
  BY <1>1, JoinTakes
<1>4. Takes(Idle, RLocked("gauges", EachEntry("gauges") \o GetData \o EachEntry("data")
                                    \o AllPassed), Idle)
  <2> DEFINE r == Mode("none", "reading", "no", "no")
  <2>1. Idle \in Modes /\ r \in Modes /\ "gauges" \in Mutexes /\ "gauges" \in Maps
    BY ModeType DEF Idle, Mutexes, Maps
  <2>2. /\ Idle.lock["gauges"] = "none" /\ r.lock = [Idle.lock EXCEPT !["gauges"] = "reading"]
        /\ Idle.assign = "no" /\ Idle.verdict = "no" /\ r.assign = "no" /\ r.verdict = "no"
    BY DEF Idle, Mode, Mutexes
  <2>3. /\ Takes(r, EachEntry("gauges"), r) /\ Takes(r, GetData, r)
        /\ Takes(r, EachEntry("data"), r) /\ Takes(r, AllPassed, r)
    BY <2>1, ReadsTake, IterationTakes
  <2> HIDE DEF r
  <2>4. Takes(r, EachEntry("gauges") \o GetData, r)
    BY <2>3, JoinTakes
  <2>5. Takes(r, EachEntry("gauges") \o GetData \o EachEntry("data"), r)
    BY <2>3, <2>4, JoinTakes
  <2>6. Takes(r, EachEntry("gauges") \o GetData \o EachEntry("data") \o AllPassed, r)
    BY <2>3, <2>5, JoinTakes
  <2> QED BY <2>1, <2>2, <2>6, RLockedTakes
<1> QED BY <1>1, <1>2, <1>3, <1>4 DEF Handlers

LEMMA GoroutinesTake ==
  /\ Takes(Idle, <<>>, Idle)
  /\ Takes(Idle, Verification, Idle)
  /\ Takes(Idle, PrintSummary \o Save, Idle)
<1>1. Takes(Idle, <<>>, Idle)
  BY ModeType, NothingTakes DEF Idle
<1>2. Takes(Idle, Verification, Idle)
  <2>1. Takes(Idle, UpdateProgress \o SetGauge, Idle)
    BY UpdatesTake, JoinTakes
  <2> QED BY <2>1, UpdatesTake, JoinTakes DEF Verification
<1> DEFINE r == Mode("reading", "none", "no", "no")
           w == Mode("writing", "none", "no", "no")
<1>3. Takes(Idle, Locked("report", <<>>), Idle)
  <2>1. Idle \in Modes /\ w \in Modes /\ "report" \in Mutexes
    BY ModeType DEF Idle, Mutexes
  <2>2. /\ Idle.lock["report"] = "none" /\ w.lock = [Idle.lock EXCEPT !["report"] = "writing"]
        /\ Idle.assign = "no" /\ Idle.verdict = "no" /\ w.assign = "no" /\ w.verdict = "no"
    BY DEF Idle, Mode, Mutexes
  <2> HIDE DEF w
  <2>3. Takes(w, <<>>, w)
    BY <2>1, NothingTakes
  <2> QED BY <2>1, <2>2, <2>3, LockedTakes
<1>4. Takes(r, EachEntry("data"), r) /\ Takes(r, AllPassedLocked, r)
  BY IterationTakes DEF Maps
<1>5. Takes(r, EachEntry("data") \o AllPassedLocked, r)
  <2> HIDE DEF r
  <2> QED BY <1>4, JoinTakes
<1>6. /\ Takes(Idle, RLocked("report", EachEntry("data") \o AllPassedLocked), Idle)
      /\ Takes(Idle, RLocked("report", EachEntry("data")), Idle)
  BY <1>4, <1>5, ReportReadsTake DEF Idle
<1>7. Takes(Idle, PrintSummary, Idle) /\ Takes(Idle, Save, Idle)
  BY <1>3, <1>6, JoinTakes DEF PrintSummary, Save
<1> QED BY <1>1, <1>2, <1>7, JoinTakes

-----------------------------------------------------------------------------
(* What the mutexes and the maps look like to a goroutine in mode a.       *)
LockAgrees(p, m, l) ==
    /\ mutex[m].writer = p <=> l \in {"pending", "writing"}
    /\ p \in mutex[m].queue => l = "waiting"
    /\ mutex[m].readers[p] =
           IF l = "reading" \/ (l = "waiting" /\ p \notin mutex[m].queue) THEN 1 ELSE 0
    /\ l = "writing" => \A q \in Goroutines : mutex[m].readers[q] = 0

VerdictAgrees(p) ==
    /\ left[p] \subseteq Present
    /\ allOK[p] <=> \A n \in Present \ left[p] : data[n] = "passed"

Agrees(p, a) ==
    /\ \A m \in Mutexes : LockAgrees(p, m, a.lock[m])
    /\ \A m \in Maps : assigning[m] = p <=> a.assign = m
    /\ a.verdict = "sought" => VerdictAgrees(p)

(* Every goroutine is at a place of an outline of its code that ends with  *)
(* nothing in hand.                                                        *)
InOutline ==
    \A p \in Goroutines : \E a \in Modes : Takes(a, code[p], Idle) /\ Agrees(p, a)

AccessInv == TypeOK /\ InOutline

LEMMA InPlace ==
  ASSUME TypeOK, InOutline, NEW p \in Goroutines, NEW name, Doing(p, name)
  PROVE  /\ Head(code[p]) \in Ops /\ Head(code[p]).name = name
         /\ Tail(code[p]) \in Seq(Ops)
         /\ \E a \in Modes, b \in Modes :
               /\ Agrees(p, a)
               /\ Legal(a, Head(code[p]), b)
               /\ Takes(b, Tail(code[p]), Idle)
<1>1. PICK a \in Modes : Takes(a, code[p], Idle) /\ Agrees(p, a)
  BY DEF InOutline
<1>2. code[p] # <<>> /\ Head(code[p]).name = name
  BY DEF Doing
<1> QED BY <1>1, <1>2, FirstTakes

(* A step of p: the others see nothing of it.                              *)
LEMMA OutlineKept ==
  ASSUME TypeOK, InOutline, NEW p \in Goroutines, NEW t, NEW b \in Modes,
         code' = [code EXCEPT ![p] = t], Takes(b, t, Idle), Agrees(p, b)',
         \A q \in Goroutines \ {p} : \A a \in Modes : Agrees(q, a) => Agrees(q, a)'
  PROVE  InOutline'
<1> SUFFICES ASSUME NEW q \in Goroutines
             PROVE  \E a \in Modes : Takes(a, code'[q], Idle) /\ Agrees(q, a)'
  BY DEF InOutline
<1>1. code'[q] = IF q = p THEN t ELSE code[q]
  BY DEF TypeOK
<1>2. CASE q = p
  BY <1>1, <1>2
<1>3. CASE q # p
  <2>1. PICK a \in Modes : Takes(a, code[q], Idle) /\ Agrees(q, a)
    BY DEF InOutline
  <2> QED BY <1>1, <1>3, <2>1
<1> QED BY <1>2, <1>3

LEMMA CodeType ==
  ASSUME TypeOK, NEW p \in Goroutines, NEW t \in Seq(Ops), code' = [code EXCEPT ![p] = t]
  PROVE  code' \in [Goroutines -> Seq([name : OpNames, on : Mutexes \cup Maps])]
  BY DEF TypeOK, Ops

LEMMA MutexType ==
  ASSUME TypeOK, NEW m \in Mutexes
  PROVE  /\ mutex[m].writer \in Goroutines \cup {Nobody}
         /\ mutex[m].queue \subseteq Goroutines
         /\ mutex[m].readers \in [Goroutines -> Nat]
  BY DEF TypeOK

LEMMA MutexFields ==
  ASSUME TypeOK, NEW m \in Mutexes, NEW x
  PROVE  /\ [mutex EXCEPT ![m].writer = x] =
              [mutex EXCEPT ![m] = [writer |-> x, queue |-> mutex[m].queue,
                                    readers |-> mutex[m].readers]]
         /\ [mutex EXCEPT ![m].queue = x] =
              [mutex EXCEPT ![m] = [writer |-> mutex[m].writer, queue |-> x,
                                    readers |-> mutex[m].readers]]
         /\ [mutex EXCEPT ![m].readers = x] =
              [mutex EXCEPT ![m] = [writer |-> mutex[m].writer, queue |-> mutex[m].queue,
                                    readers |-> x]]
<1> DEFINE r == mutex[m]
<1>1. r \in [writer : Goroutines \cup {Nobody}, queue : SUBSET Goroutines,
            readers : [Goroutines -> Nat]]
  BY DEF TypeOK
<1>2. [mutex EXCEPT ![m].writer = x] = [mutex EXCEPT ![m] = [r EXCEPT !.writer = x]]
  OBVIOUS
<1>3. [mutex EXCEPT ![m].queue = x] = [mutex EXCEPT ![m] = [r EXCEPT !.queue = x]]
  OBVIOUS
<1>4. [mutex EXCEPT ![m].readers = x] = [mutex EXCEPT ![m] = [r EXCEPT !.readers = x]]
  OBVIOUS
<1> HIDE DEF r
<1>5. /\ [r EXCEPT !.writer = x] = [writer |-> x, queue |-> r.queue, readers |-> r.readers]
      /\ [r EXCEPT !.queue = x] = [writer |-> r.writer, queue |-> x, readers |-> r.readers]
      /\ [r EXCEPT !.readers = x] = [writer |-> r.writer, queue |-> r.queue, readers |-> x]
  BY <1>1
<1> QED BY <1>2, <1>3, <1>4, <1>5 DEF r

(* A step that changes one mutex.                                          *)
LEMMA MutexKept ==
  ASSUME TypeOK, NEW m \in Mutexes,
         NEW w \in Goroutines \cup {Nobody}, NEW k \in SUBSET Goroutines,
         NEW r \in [Goroutines -> Nat],
         mutex' = [mutex EXCEPT ![m] = [writer |-> w, queue |-> k, readers |-> r]]
  PROVE  /\ mutex' \in [Mutexes -> [writer : Goroutines \cup {Nobody}, queue : SUBSET Goroutines,
                                    readers : [Goroutines -> Nat]]]
         /\ mutex'[m].writer = w /\ mutex'[m].queue = k /\ mutex'[m].readers = r
         /\ \A x \in Mutexes \ {m} : mutex'[x] = mutex[x]
  BY DEF TypeOK

(* A step of p that moves its mode on one mutex.                           *)
LEMMA LockStepKeeps ==
  ASSUME AccessInv, NEW p \in Goroutines, NEW m \in Mutexes, NEW a \in Modes, NEW b \in Modes,
         NEW l, NEW t \in Seq(Ops), Agrees(p, a), Takes(b, t, Idle),
         b.lock = [a.lock EXCEPT ![m] = l],
         a.assign = "no", b.assign = "no", b.verdict = "no",
         code' = [code EXCEPT ![p] = t], UNCHANGED <<proc, data, assigning, left, allOK, calls>>,
         NEW w \in Goroutines \cup {Nobody}, NEW k \in SUBSET Goroutines,
         NEW r \in [Goroutines -> Nat],
         mutex' = [mutex EXCEPT ![m] = [writer |-> w, queue |-> k, readers |-> r]],
         LockAgrees(p, m, l)',
         \A q \in Goroutines \ {p} : \A c : LockAgrees(q, m, c) => LockAgrees(q, m, c)'
  PROVE  AccessInv'
<1>1. TypeOK /\ InOutline
  BY DEF AccessInv
<1>2. a.lock \in [Mutexes -> {"none", "pending", "writing", "waiting", "reading"}]
  BY DEF Modes
<1>3. /\ mutex' \in [Mutexes -> [writer : Goroutines \cup {Nobody}, queue : SUBSET Goroutines,
                                 readers : [Goroutines -> Nat]]]
      /\ \A x \in Mutexes \ {m} : mutex'[x] = mutex[x]
  BY <1>1, MutexKept
<1>4. TypeOK'
  BY <1>1, <1>3, CodeType DEF TypeOK
<1>5. Agrees(p, b)'
  <2>1. ASSUME NEW x \in Mutexes PROVE LockAgrees(p, x, b.lock[x])'
    <3>1. CASE x = m
      BY <1>2, <3>1
    <3>2. CASE x # m
      BY <1>2, <1>3, <3>2 DEF Agrees, LockAgrees
    <3> QED BY <3>1, <3>2
  <2> QED BY <2>1 DEF Agrees
<1>6. ASSUME NEW q \in Goroutines \ {p}, NEW c \in Modes, Agrees(q, c) PROVE Agrees(q, c)'
  <2>1. ASSUME NEW x \in Mutexes PROVE LockAgrees(q, x, c.lock[x])'
    <3>1. CASE x = m
      BY <1>6, <3>1 DEF Agrees
    <3>2. CASE x # m
      BY <1>3, <1>6, <3>2 DEF Agrees, LockAgrees
    <3> QED BY <3>1, <3>2
  <2> QED BY <1>6, <2>1 DEF Agrees, VerdictAgrees, Present
<1>7. InOutline'
  BY <1>1, <1>5, <1>6, OutlineKept
<1> QED BY <1>4, <1>7 DEF AccessInv

(* What the outline says where p is about to move a mutex.                 *)
AboutToMove(p, from, to) ==
    \A a, b : Legal(a, Head(code[p]), b) => Moves(a, Head(code[p]), from, to, b)

LockPlaces(p, from, to) ==
    \E m \in Mutexes, a \in Modes, b \in Modes, t \in Seq(Ops) :
        /\ On(p) = m /\ t = Tail(code[p])
        /\ Agrees(p, a) /\ Takes(b, t, Idle) /\ LockAgrees(p, m, from)
        /\ a.lock[m] = from /\ b.lock = [a.lock EXCEPT ![m] = to]
        /\ a.assign = "no" /\ b.assign = "no" /\ a.verdict = "no" /\ b.verdict = "no"

LEMMA LockPlace ==
  ASSUME AccessInv, NEW p \in Goroutines, NEW name, Doing(p, name), NEW from, NEW to,
         AboutToMove(p, from, to)
  PROVE  LockPlaces(p, from, to)
<1>1. PICK a \in Modes, b \in Modes :
          Agrees(p, a) /\ Legal(a, Head(code[p]), b) /\ Takes(b, Tail(code[p]), Idle)
  BY InPlace DEF AccessInv
<1>2. Moves(a, Head(code[p]), from, to, b)
  BY <1>1 DEF AboutToMove
<1>3. Tail(code[p]) \in Seq(Ops)
  BY InPlace DEF AccessInv
<1> QED BY <1>1, <1>2, <1>3 DEF Moves, On, Agrees, LockPlaces

LEMMA AnnounceKeeps ==
  ASSUME AccessInv, NEW p \in Goroutines, Announce(p) PROVE AccessInv'
<1>1. Doing(p, "announce") /\ Head(code[p]).name = "announce" /\ TypeOK
  BY DEF Announce, AccessInv, Doing
<1>2. AboutToMove(p, "none", "pending")
  BY <1>1 DEF Legal, AboutToMove
<1>3. PICK m \in Mutexes, a \in Modes, b \in Modes, t \in Seq(Ops) :
               /\ On(p) = m /\ t = Tail(code[p])
               /\ Agrees(p, a) /\ Takes(b, t, Idle) /\ LockAgrees(p, m, "none")
               /\ a.lock[m] = "none" /\ b.lock = [a.lock EXCEPT ![m] = "pending"]
               /\ a.assign = "no" /\ b.assign = "no" /\ a.verdict = "no" /\ b.verdict = "no"
  <2>1. LockPlaces(p, "none", "pending")
    BY <1>1, <1>2, LockPlace
  <2> QED BY <2>1 DEF LockPlaces
<1>4. /\ mutex[m].writer = Nobody
      /\ code' = [code EXCEPT ![p] = t]
      /\ UNCHANGED <<proc, data, assigning, left, allOK, calls>>
  BY <1>3 DEF Announce, Done
<1>5. mutex' = [mutex EXCEPT ![m] = [writer |-> p, queue |-> mutex[m].queue,
                                     readers |-> mutex[m].readers]]
  BY <1>1, <1>3, MutexFields DEF Announce
<1>6. mutex'[m].writer = p /\ mutex'[m].queue = mutex[m].queue
      /\ mutex'[m].readers = mutex[m].readers
  BY <1>1, <1>5, MutexType, MutexKept
<1>7. LockAgrees(p, m, "pending")'
  BY <1>3, <1>6 DEF LockAgrees
<1>8. \A q \in Goroutines \ {p} : \A c : LockAgrees(q, m, c) => LockAgrees(q, m, c)'
  BY <1>4, <1>6, AccessAssumption DEF LockAgrees
<1> QED BY <1>1, <1>3, <1>4, <1>5, <1>7, <1>8, MutexType, LockStepKeeps

LEMMA EnterKeeps ==
  ASSUME AccessInv, NEW p \in Goroutines, Enter(p) PROVE AccessInv'
<1>1. Doing(p, "enter") /\ Head(code[p]).name = "enter" /\ TypeOK
  BY DEF Enter, AccessInv, Doing
<1>2. AboutToMove(p, "pending", "writing")
  BY <1>1 DEF Legal, AboutToMove
<1>3. PICK m \in Mutexes, a \in Modes, b \in Modes, t \in Seq(Ops) :
               /\ On(p) = m /\ t = Tail(code[p])
               /\ Agrees(p, a) /\ Takes(b, t, Idle) /\ LockAgrees(p, m, "pending")
               /\ a.lock[m] = "pending" /\ b.lock = [a.lock EXCEPT ![m] = "writing"]
               /\ a.assign = "no" /\ b.assign = "no" /\ a.verdict = "no" /\ b.verdict = "no"
  <2>1. LockPlaces(p, "pending", "writing")
    BY <1>1, <1>2, LockPlace
  <2> QED BY <2>1 DEF LockPlaces
<1>4. /\ \A q \in Goroutines : mutex[m].readers[q] = 0
      /\ code' = [code EXCEPT ![p] = t]
      /\ UNCHANGED <<proc, data, assigning, left, allOK, calls>>
  BY <1>3 DEF Enter, Done
<1>5. mutex' = mutex
  BY DEF Enter
<1>6. mutex' = [mutex EXCEPT ![m] = [writer |-> mutex[m].writer, queue |-> mutex[m].queue,
                                     readers |-> mutex[m].readers]]
  BY <1>1, <1>5 DEF TypeOK
<1>7. LockAgrees(p, m, "writing")'
  BY <1>3, <1>4, <1>5 DEF LockAgrees
<1>8. \A q \in Goroutines \ {p} : \A c : LockAgrees(q, m, c) => LockAgrees(q, m, c)'
  BY <1>5 DEF LockAgrees
<1> QED BY <1>1, <1>3, <1>4, <1>6, <1>7, <1>8, MutexType, LockStepKeeps

LEMMA UnlockKeeps ==
  ASSUME AccessInv, NEW p \in Goroutines, Unlock(p) PROVE AccessInv'
<1>1. Doing(p, "unlock") /\ Head(code[p]).name = "unlock" /\ TypeOK
  BY DEF Unlock, AccessInv, Doing
<1>2. AboutToMove(p, "writing", "none")
  BY <1>1 DEF Legal, AboutToMove
<1>3. PICK m \in Mutexes, a \in Modes, b \in Modes, t \in Seq(Ops) :
               /\ On(p) = m /\ t = Tail(code[p])
               /\ Agrees(p, a) /\ Takes(b, t, Idle) /\ LockAgrees(p, m, "writing")
               /\ a.lock[m] = "writing" /\ b.lock = [a.lock EXCEPT ![m] = "none"]
               /\ a.assign = "no" /\ b.assign = "no" /\ a.verdict = "no" /\ b.verdict = "no"
  <2>1. LockPlaces(p, "writing", "none")
    BY <1>1, <1>2, LockPlace
  <2> QED BY <2>1 DEF LockPlaces
<1>4. /\ code' = [code EXCEPT ![p] = t]
      /\ UNCHANGED <<proc, data, assigning, left, allOK, calls>>
  BY <1>3 DEF Unlock, Done
<1> DEFINE r == [q \in Goroutines |-> mutex[m].readers[q] + IF q \in mutex[m].queue THEN 1 ELSE 0]
<1>5. mutex' = [mutex EXCEPT ![m] = [writer |-> Nobody, queue |-> {}, readers |-> r]]
  BY <1>3 DEF Unlock
<1>6. r \in [Goroutines -> Nat]
  BY <1>1, MutexType
<1>7. mutex'[m].writer = Nobody /\ mutex'[m].queue = {} /\ mutex'[m].readers = r
  BY <1>1, <1>5, <1>6, MutexKept
<1>8. LockAgrees(p, m, "none")'
  BY <1>3, <1>7, AccessAssumption DEF LockAgrees
<1>9. ASSUME NEW q \in Goroutines \ {p}, NEW c, LockAgrees(q, m, c) PROVE LockAgrees(q, m, c)'
  <2>1. mutex[m].writer = p /\ mutex[m].readers[q] = 0
    BY <1>3 DEF LockAgrees
  <2>2. mutex'[m].readers[q] = IF q \in mutex[m].queue THEN 1 ELSE 0
    BY <1>7, <2>1
  <2>3. c \notin {"pending", "writing"}
    BY <1>9, <2>1 DEF LockAgrees
  <2> QED BY <1>7, <1>9, <2>1, <2>2, <2>3, AccessAssumption DEF LockAgrees
<1> HIDE DEF r
<1> QED BY <1>3, <1>4, <1>5, <1>6, <1>8, <1>9, LockStepKeeps

LEMMA AdmittedKeeps ==
  ASSUME AccessInv, NEW p \in Goroutines, Admitted(p) PROVE AccessInv'
<1>1. Doing(p, "queued") /\ Head(code[p]).name = "queued" /\ TypeOK
  BY DEF Admitted, AccessInv, Doing
<1>2. AboutToMove(p, "waiting", "reading")
  BY <1>1 DEF Legal, AboutToMove
<1>3. PICK m \in Mutexes, a \in Modes, b \in Modes, t \in Seq(Ops) :
               /\ On(p) = m /\ t = Tail(code[p])
               /\ Agrees(p, a) /\ Takes(b, t, Idle) /\ LockAgrees(p, m, "waiting")
               /\ a.lock[m] = "waiting" /\ b.lock = [a.lock EXCEPT ![m] = "reading"]
               /\ a.assign = "no" /\ b.assign = "no" /\ a.verdict = "no" /\ b.verdict = "no"
  <2>1. LockPlaces(p, "waiting", "reading")
    BY <1>1, <1>2, LockPlace
  <2> QED BY <2>1 DEF LockPlaces
<1>4. /\ p \notin mutex[m].queue
      /\ code' = [code EXCEPT ![p] = t]
      /\ UNCHANGED <<proc, data, assigning, left, allOK, calls>>
  BY <1>3 DEF Admitted, Done
<1>5. mutex' = mutex
  BY DEF Admitted
<1>6. mutex' = [mutex EXCEPT ![m] = [writer |-> mutex[m].writer, queue |-> mutex[m].queue,
                                     readers |-> mutex[m].readers]]
  BY <1>1, <1>5 DEF TypeOK
<1>7. LockAgrees(p, m, "reading")'
  BY <1>3, <1>4, <1>5 DEF LockAgrees
<1>8. \A q \in Goroutines \ {p} : \A c : LockAgrees(q, m, c) => LockAgrees(q, m, c)'
  BY <1>5 DEF LockAgrees
<1> QED BY <1>1, <1>3, <1>4, <1>6, <1>7, <1>8, MutexType, LockStepKeeps

LEMMA RUnlockKeeps ==
  ASSUME AccessInv, NEW p \in Goroutines, RUnlock(p) PROVE AccessInv'
<1>1. Doing(p, "runlock") /\ Head(code[p]).name = "runlock" /\ TypeOK
  BY DEF RUnlock, AccessInv, Doing
<1>2. AboutToMove(p, "reading", "none")
  BY <1>1 DEF Legal, AboutToMove
<1>3. PICK m \in Mutexes, a \in Modes, b \in Modes, t \in Seq(Ops) :
               /\ On(p) = m /\ t = Tail(code[p])
               /\ Agrees(p, a) /\ Takes(b, t, Idle) /\ LockAgrees(p, m, "reading")
               /\ a.lock[m] = "reading" /\ b.lock = [a.lock EXCEPT ![m] = "none"]
               /\ a.assign = "no" /\ b.assign = "no" /\ a.verdict = "no" /\ b.verdict = "no"
  <2>1. LockPlaces(p, "reading", "none")
    BY <1>1, <1>2, LockPlace
  <2> QED BY <2>1 DEF LockPlaces
<1>4. /\ code' = [code EXCEPT ![p] = t]
      /\ UNCHANGED <<proc, data, assigning, left, allOK, calls>>
  BY <1>3 DEF RUnlock, Done
<1> DEFINE r == [mutex[m].readers EXCEPT ![p] = @ - 1]
<1>5. mutex' = [mutex EXCEPT ![m] = [writer |-> mutex[m].writer, queue |-> mutex[m].queue,
                                     readers |-> r]]
  <2>1. mutex' = [mutex EXCEPT ![m].readers = r]
    BY <1>3 DEF RUnlock
  <2> HIDE DEF r
  <2> QED BY <1>1, <2>1, MutexFields
<1>6. mutex[m].readers[p] = 1 /\ r \in [Goroutines -> Nat] /\ r[p] = 0
      /\ \A q \in Goroutines \ {p} : r[q] = mutex[m].readers[q]
  <2>1. mutex[m].readers[p] = 1 /\ mutex[m].readers \in [Goroutines -> Nat]
    BY <1>1, <1>3, MutexType DEF LockAgrees
  <2> QED BY <2>1
<1> HIDE DEF r
<1>7. mutex'[m].writer = mutex[m].writer /\ mutex'[m].queue = mutex[m].queue
      /\ mutex'[m].readers = r
  BY <1>1, <1>5, <1>6, MutexType, MutexKept
<1>8. LockAgrees(p, m, "none")'
  BY <1>3, <1>6, <1>7 DEF LockAgrees
<1>9. \A q \in Goroutines \ {p} : \A c : LockAgrees(q, m, c) => LockAgrees(q, m, c)'
  BY <1>6, <1>7 DEF LockAgrees
<1> QED BY <1>1, <1>3, <1>4, <1>5, <1>6, <1>8, <1>9, MutexType, LockStepKeeps

LEMMA RLockKeeps ==
  ASSUME AccessInv, NEW p \in Goroutines, RLock(p) PROVE AccessInv'
<1>1. Doing(p, "rlock") /\ Head(code[p]).name = "rlock" /\ TypeOK
  BY DEF RLock, AccessInv, Doing
<1>2. AboutToMove(p, "none", "reading")
  BY <1>1 DEF Legal, AboutToMove
<1>3. PICK m \in Mutexes, a \in Modes, b \in Modes, t \in Seq(Ops) :
               /\ On(p) = m /\ t = Tail(code[p])
               /\ Agrees(p, a) /\ Takes(b, t, Idle) /\ LockAgrees(p, m, "none")
               /\ a.lock[m] = "none" /\ b.lock = [a.lock EXCEPT ![m] = "reading"]
               /\ a.assign = "no" /\ b.assign = "no" /\ a.verdict = "no" /\ b.verdict = "no"
  <2>1. LockPlaces(p, "none", "reading")
    BY <1>1, <1>2, LockPlace
  <2> QED BY <2>1 DEF LockPlaces
<1>4. UNCHANGED <<proc, data, assigning, left, allOK, calls>>
  BY DEF RLock
<1>5. CASE mutex[m].writer = Nobody
  <2> DEFINE r == [mutex[m].readers EXCEPT ![p] = @ + 1]
  <2>1. code' = [code EXCEPT ![p] = t]
    BY <1>3, <1>5 DEF RLock, Done
  <2>2. mutex' = [mutex EXCEPT ![m] = [writer |-> mutex[m].writer, queue |-> mutex[m].queue,
                                       readers |-> r]]
    <3>1. mutex' = [mutex EXCEPT ![m].readers = r]
      BY <1>3, <1>5 DEF RLock
    <3> HIDE DEF r
    <3> QED BY <1>1, <3>1, MutexFields
  <2>3. r \in [Goroutines -> Nat] /\ r[p] = 1
        /\ \A q \in Goroutines \ {p} : r[q] = mutex[m].readers[q]
    <3>1. mutex[m].readers[p] = 0 /\ mutex[m].readers \in [Goroutines -> Nat]
      BY <1>1, <1>3, MutexType DEF LockAgrees
    <3> QED BY <3>1
  <2> HIDE DEF r
  <2>4. mutex'[m].writer = Nobody /\ mutex'[m].queue = mutex[m].queue
        /\ mutex'[m].readers = r
    BY <1>1, <1>5, <2>2, <2>3, MutexType, MutexKept
  <2>5. LockAgrees(p, m, "reading")'
    BY <1>3, <2>3, <2>4, AccessAssumption DEF LockAgrees
  <2>6. \A q \in Goroutines \ {p} : \A c : LockAgrees(q, m, c) => LockAgrees(q, m, c)'
    BY <1>5, <2>3, <2>4, AccessAssumption DEF LockAgrees
  <2> QED BY <1>1, <1>3, <1>4, <2>1, <2>2, <2>3, <2>5, <2>6, MutexType, LockStepKeeps
<1>6. CASE mutex[m].writer # Nobody
  <2> DEFINE o == Op("queued", m)
             w == [lock |-> [a.lock EXCEPT ![m] = "waiting"], assign |-> "no", verdict |-> "no"]
             u == <<o>> \o t
             k == mutex[m].queue \cup {p}
  <2>1. o \in Ops
    BY OpFields DEF OpNames
  <2>2. w \in Modes /\ w.lock = [a.lock EXCEPT ![m] = "waiting"] /\ w.assign = "no"
        /\ w.verdict = "no" /\ w.lock[m] = "waiting" /\ b.lock = [w.lock EXCEPT ![m] = "reading"]
    <3>1. a.lock \in [Mutexes -> {"none", "pending", "writing", "waiting", "reading"}]
      BY DEF Modes
    <3>2. w.lock \in [Mutexes -> {"none", "pending", "writing", "waiting", "reading"}]
      BY <3>1
    <3>3. w \in Modes
      BY <3>2 DEF Modes
    <3> QED BY <1>3, <3>1, <3>3
  <2>3. u \in Seq(Ops)
    <3>1. <<o>> \in Seq(Ops)
      BY <2>1
    <3> QED BY <3>1, ConcatProperties
  <2>4. code' = [code EXCEPT ![p] = u]
    BY <1>3, <1>6 DEF RLock
  <2>5. mutex' = [mutex EXCEPT ![m] = [writer |-> mutex[m].writer, queue |-> k,
                                       readers |-> mutex[m].readers]]
    <3>1. mutex' = [mutex EXCEPT ![m].queue = k]
      BY <1>3, <1>6 DEF RLock
    <3> HIDE DEF k
    <3> QED BY <1>1, <3>1, MutexFields
  <2>6. k \in SUBSET Goroutines
    BY <1>1, MutexType
  <2> HIDE DEF w
  <2>7. Takes(w, u, Idle)
    <3>1. Legal(w, o, b)
      BY <1>3, <2>2, OpFields DEF Legal, Moves
    <3> HIDE DEF o
    <3>2. Takes(w, <<o>>, b)
      BY <2>1, <2>2, <3>1, OpTakes
    <3> QED BY <1>3, <3>2, JoinTakes
  <2>8. mutex'[m].writer = mutex[m].writer /\ mutex'[m].queue = k
        /\ mutex'[m].readers = mutex[m].readers
    BY <1>1, <2>5, <2>6, MutexType, MutexKept
  <2>9. LockAgrees(p, m, "waiting")'
    BY <1>3, <2>8 DEF LockAgrees
  <2>10. \A q \in Goroutines \ {p} : \A c : LockAgrees(q, m, c) => LockAgrees(q, m, c)'
    BY <2>8 DEF LockAgrees
  <2> HIDE DEF u, k
  <2> QED BY <1>1, <1>3, <1>4, <2>2, <2>3, <2>4, <2>5, <2>6, <2>7, <2>9, <2>10,
             MutexType, LockStepKeeps
<1> QED BY <1>5, <1>6

-----------------------------------------------------------------------------
MapTypes ==
    /\ data \in [NS -> {"absent", "open", "passed", "failed"}]
    /\ assigning \in [Maps -> Goroutines \cup {Nobody}]
    /\ left \in [Goroutines -> SUBSET NS]
    /\ allOK \in [Goroutines -> BOOLEAN]

(* A step of p on a map, from mode a to mode b, leaving it the code t.     *)
MapStep(p, a, b, t) ==
    /\ b.lock = a.lock
    /\ code' = [code EXCEPT ![p] = t]
    /\ UNCHANGED <<proc, mutex, calls>>
    /\ MapTypes'
    /\ \A m \in Maps : assigning'[m] = p <=> b.assign = m
    /\ \A q \in Goroutines \ {p} : \A m \in Maps : assigning'[m] = q <=> assigning[m] = q
    /\ b.verdict = "sought" => VerdictAgrees(p)'
    /\ \A q \in Goroutines \ {p} : left'[q] = left[q] /\ allOK'[q] = allOK[q]
    /\ data' = data \/ a.lock["report"] = "writing"

(* Only who holds the write lock of the report changes Data, and nobody    *)
(* seeks a verdict then.                                                   *)
LEMMA MapStepKeeps ==
  ASSUME AccessInv, NEW p \in Goroutines, NEW a \in Modes, NEW b \in Modes,
         NEW t \in Seq(Ops), Agrees(p, a), Takes(b, t, Idle), MapStep(p, a, b, t)
  PROVE  AccessInv'
<1>1. TypeOK /\ InOutline
  BY DEF AccessInv
<1>2. TypeOK'
  BY <1>1, CodeType DEF TypeOK, MapStep, MapTypes
<1>3. Agrees(p, b)'
  BY DEF Agrees, LockAgrees, MapStep
<1>4. ASSUME NEW q \in Goroutines \ {p}, NEW c \in Modes, Agrees(q, c) PROVE Agrees(q, c)'
  <2>1. \A x \in Mutexes : LockAgrees(q, x, c.lock[x])'
    BY <1>4 DEF Agrees, LockAgrees, MapStep
  <2>2. \A m \in Maps : assigning'[m] = q <=> c.assign = m
    BY <1>4 DEF Agrees, MapStep
  <2>3. ASSUME c.verdict = "sought" PROVE VerdictAgrees(q)'
    <3>1. c.lock["report"] = "reading" /\ "report" \in Mutexes
      BY <2>3 DEF Modes, Mutexes
    <3>2. mutex["report"].readers[q] = 1
      BY <1>4, <3>1 DEF Agrees, LockAgrees
    <3>3. data' = data
      BY <3>1, <3>2 DEF Agrees, LockAgrees, MapStep
    <3>4. VerdictAgrees(q) /\ left'[q] = left[q] /\ allOK'[q] = allOK[q]
      BY <1>4, <2>3 DEF Agrees, MapStep
    <3> QED BY <3>3, <3>4 DEF VerdictAgrees, Present
  <2> QED BY <2>1, <2>2, <2>3 DEF Agrees
<1>5. InOutline'
  <2>1. code' = [code EXCEPT ![p] = t]
    BY DEF MapStep
  <2> QED BY <1>1, <1>3, <1>4, <2>1, OutlineKept
<1> QED BY <1>2, <1>5 DEF AccessInv

LEMMA MapsTyped == ASSUME AccessInv PROVE MapTypes
  BY DEF AccessInv, TypeOK, MapTypes

(* Whoever assigns to a map holds its mutex, so nobody else was.           *)
LEMMA StartOfAssignment ==
  ASSUME AccessInv, NEW p \in Goroutines, NEW a \in Modes, Agrees(p, a), a.assign = "no",
         NEW m \in Maps, a.lock[Guard[m]] = "writing", assigning' = [assigning EXCEPT ![m] = p]
  PROVE  /\ assigning' \in [Maps -> Goroutines \cup {Nobody}]
         /\ \A x \in Maps : assigning'[x] = p <=> x = m
         /\ \A q \in Goroutines \ {p} : \A x \in Maps : assigning'[x] = q <=> assigning[x] = q
<1>1. assigning \in [Maps -> Goroutines \cup {Nobody}] /\ assigning' \in [Maps -> Goroutines \cup {Nobody}]
  BY MapsTyped DEF MapTypes
<1>2. \A x \in Maps : assigning'[x] = IF x = m THEN p ELSE assigning[x]
  BY <1>1
<1>3. \A x \in Maps : assigning[x] # p
  BY DEF Agrees, Maps
<1>4. ASSUME NEW q \in Goroutines \ {p} PROVE assigning[m] # q
  <2>1. PICK c \in Modes : Agrees(q, c)
    BY DEF AccessInv, InOutline
  <2>2. Guard[m] \in Mutexes /\ (c.assign = m => c.lock[Guard[m]] = "writing")
    BY DEF Modes, Maps, Guard, Mutexes
  <2>3. mutex[Guard[m]].writer = p
    BY <2>2 DEF Agrees, LockAgrees
  <2>4. c.lock[Guard[m]] # "writing"
    BY <2>1, <2>2, <2>3 DEF Agrees, LockAgrees
  <2> QED BY <2>1, <2>2, <2>4 DEF Agrees
<1> QED BY <1>1, <1>2, <1>3, <1>4

LEMMA OpenEntryKeeps ==
  ASSUME AccessInv, NEW p \in Goroutines, OpenEntry(p) PROVE AccessInv'
<1>1. Doing(p, "open") /\ Head(code[p]).name = "open" /\ TypeOK /\ InOutline
  BY DEF OpenEntry, AccessInv, Doing
<1>2. PICK t \in Seq(Ops) : t = Tail(code[p])
  BY <1>1, InPlace
<1>3. PICK a \in Modes, b \in Modes :
          Agrees(p, a) /\ Legal(a, Head(code[p]), b) /\ Takes(b, t, Idle)
  BY <1>1, <1>2, InPlace
<1>4. /\ b.assign = "data" /\ b.lock = a.lock /\ a.assign = "no"
      /\ a.verdict = "no" /\ b.verdict = "no" /\ a.lock["report"] = "writing"
  BY <1>1, <1>3 DEF Legal, Modes
<1>5. UNCHANGED <<proc, mutex, left, allOK, calls>>
  BY DEF OpenEntry
<1>6. CASE data[p] = "absent"
  <2>1. /\ data' = [data EXCEPT ![p] = "open"] /\ assigning' = [assigning EXCEPT !["data"] = p]
        /\ code' = [code EXCEPT ![p] = t]
    BY <1>2, <1>6 DEF OpenEntry, Done
  <2>2. data' \in [NS -> {"absent", "open", "passed", "failed"}]
    BY <2>1, MapsTyped DEF MapTypes
  <2>3. "data" \in Maps /\ a.lock[Guard["data"]] = "writing"
    BY <1>4 DEF Maps, Guard
  <2>4. /\ assigning' \in [Maps -> Goroutines \cup {Nobody}]
        /\ \A x \in Maps : assigning'[x] = p <=> x = "data"
        /\ \A q \in Goroutines \ {p} : \A x \in Maps : assigning'[x] = q <=> assigning[x] = q
    BY <1>3, <1>4, <2>1, <2>3, StartOfAssignment
  <2>5. MapStep(p, a, b, t)
    BY <1>4, <1>5, <2>1, <2>2, <2>4, MapsTyped DEF MapStep, MapTypes
  <2> QED BY <1>3, <2>5, MapStepKeeps
<1>7. CASE data[p] # "absent"
  <2>1. t # <<>>
    <3>1. Idle.assign = "no"
      BY DEF Idle, Mode
    <3>2. Takes(b, <<>>, Idle) => b = Idle
      BY EmptyTakes
    <3> QED BY <1>3, <1>4, <3>1, <3>2
  <2>2. PICK c \in Modes : Legal(b, Head(t), c) /\ Takes(c, Tail(t), Idle)
    BY <1>2, <1>3, <2>1, FirstTakes
  <2>3. c.lock = a.lock /\ c.assign = "no" /\ c.verdict = "no"
    BY <1>4, <2>2 DEF Legal, Moves
  <2>4. PICK u \in Seq(Ops) : u = Tail(t)
    BY <2>1, HeadTailProperties
  <2>5. code' = [code EXCEPT ![p] = u] /\ UNCHANGED <<data, assigning>>
    BY <1>2, <1>7, <2>4 DEF OpenEntry
  <2>6. \A m \in Maps : assigning'[m] = p <=> c.assign = m
    BY <1>3, <1>4, <2>3, <2>5 DEF Agrees
  <2>7. Takes(c, u, Idle)
    BY <2>2, <2>4
  <2>8. MapStep(p, a, c, u)
    BY <1>5, <2>3, <2>5, <2>6, MapsTyped DEF MapStep, MapTypes
  <2> QED BY <1>3, <2>7, <2>8, MapStepKeeps
<1> QED BY <1>6, <1>7

LEMMA SettleEntryKeeps ==
  ASSUME AccessInv, NEW p \in Goroutines, SettleEntry(p) PROVE AccessInv'
<1>1. Doing(p, "settle") /\ Head(code[p]).name = "settle" /\ TypeOK /\ InOutline
  BY DEF SettleEntry, AccessInv, Doing
<1>2. PICK t \in Seq(Ops) : t = Tail(code[p])
  BY <1>1, InPlace
<1>3. PICK a \in Modes, b \in Modes :
          Agrees(p, a) /\ Legal(a, Head(code[p]), b) /\ Takes(b, t, Idle)
  BY <1>1, <1>2, InPlace
<1>4. /\ b.assign = "data" /\ b.lock = a.lock /\ a.assign = "no"
      /\ a.verdict = "no" /\ b.verdict = "no" /\ a.lock["report"] = "writing"
  BY <1>1, <1>3 DEF Legal, Modes
<1>5. /\ UNCHANGED <<proc, mutex, left, allOK, calls>> /\ code' = [code EXCEPT ![p] = t]
      /\ assigning' = [assigning EXCEPT !["data"] = p]
  BY <1>2 DEF SettleEntry, Done
<1>6. data' \in [NS -> {"absent", "open", "passed", "failed"}]
  BY MapsTyped DEF SettleEntry, MapTypes
<1>7. "data" \in Maps /\ a.lock[Guard["data"]] = "writing"
  BY <1>4 DEF Maps, Guard
<1>8. /\ assigning' \in [Maps -> Goroutines \cup {Nobody}]
      /\ \A x \in Maps : assigning'[x] = p <=> x = "data"
      /\ \A q \in Goroutines \ {p} : \A x \in Maps : assigning'[x] = q <=> assigning[x] = q
  BY <1>3, <1>4, <1>5, <1>7, StartOfAssignment
<1>9. MapStep(p, a, b, t)
  BY <1>4, <1>5, <1>6, <1>8, MapsTyped DEF MapStep, MapTypes
<1> QED BY <1>3, <1>9, MapStepKeeps

LEMMA AssignGaugeKeeps ==
  ASSUME AccessInv, NEW p \in Goroutines, AssignGauge(p) PROVE AccessInv'
<1>1. Doing(p, "assign") /\ Head(code[p]).name = "assign" /\ TypeOK /\ InOutline
  BY DEF AssignGauge, AccessInv, Doing
<1>2. PICK t \in Seq(Ops) : t = Tail(code[p])
  BY <1>1, InPlace
<1>3. PICK a \in Modes, b \in Modes :
          Agrees(p, a) /\ Legal(a, Head(code[p]), b) /\ Takes(b, t, Idle)
  BY <1>1, <1>2, InPlace
<1>4. /\ b.assign = "gauges" /\ b.lock = a.lock /\ a.assign = "no"
      /\ a.verdict = "no" /\ b.verdict = "no" /\ a.lock["gauges"] = "writing"
  BY <1>1, <1>3 DEF Legal, Modes
<1>5. /\ UNCHANGED <<proc, mutex, data, left, allOK, calls>> /\ code' = [code EXCEPT ![p] = t]
      /\ assigning' = [assigning EXCEPT !["gauges"] = p]
  BY <1>2 DEF AssignGauge, Done
<1>7. "gauges" \in Maps /\ a.lock[Guard["gauges"]] = "writing"
  BY <1>4 DEF Maps, Guard
<1>8. /\ assigning' \in [Maps -> Goroutines \cup {Nobody}]
      /\ \A x \in Maps : assigning'[x] = p <=> x = "gauges"
      /\ \A q \in Goroutines \ {p} : \A x \in Maps : assigning'[x] = q <=> assigning[x] = q
  BY <1>3, <1>4, <1>5, <1>7, StartOfAssignment
<1>9. MapStep(p, a, b, t)
  BY <1>4, <1>5, <1>8, MapsTyped DEF MapStep, MapTypes
<1> QED BY <1>3, <1>9, MapStepKeeps

LEMMA AssignedKeeps ==
  ASSUME AccessInv, NEW p \in Goroutines, Assigned(p) PROVE AccessInv'
<1>1. Doing(p, "assigned") /\ Head(code[p]).name = "assigned" /\ TypeOK /\ InOutline
  BY DEF Assigned, AccessInv, Doing
<1>2. PICK t \in Seq(Ops) : t = Tail(code[p])
  BY <1>1, InPlace
<1>3. PICK a \in Modes, b \in Modes :
          Agrees(p, a) /\ Legal(a, Head(code[p]), b) /\ Takes(b, t, Idle)
  BY <1>1, <1>2, InPlace
<1>4. /\ On(p) \in Maps /\ a.assign = On(p) /\ b.assign = "no" /\ b.lock = a.lock
      /\ a.verdict = "no" /\ b.verdict = "no"
  BY <1>1, <1>3 DEF Legal, On
<1>5. /\ UNCHANGED <<proc, mutex, data, left, allOK, calls>> /\ code' = [code EXCEPT ![p] = t]
      /\ assigning' = [assigning EXCEPT ![On(p)] = Nobody]
  BY <1>2 DEF Assigned, Done
<1>6. assigning' \in [Maps -> Goroutines \cup {Nobody}]
      /\ \A x \in Maps : assigning'[x] = IF x = On(p) THEN Nobody ELSE assigning[x]
  BY <1>5, MapsTyped DEF MapTypes
<1>7. assigning[On(p)] = p /\ \A x \in Maps : assigning[x] = p => x = On(p)
  BY <1>3, <1>4 DEF Agrees
<1>8. \A x \in Maps : assigning'[x] = p <=> b.assign = x
  BY <1>4, <1>6, <1>7, AccessAssumption DEF Maps
<1>9. \A q \in Goroutines \ {p} : \A x \in Maps : assigning'[x] = q <=> assigning[x] = q
  BY <1>6, <1>7, AccessAssumption
<1>10. MapStep(p, a, b, t)
  BY <1>4, <1>5, <1>6, <1>8, <1>9, MapsTyped DEF MapStep, MapTypes
<1> QED BY <1>3, <1>10, MapStepKeeps

LEMMA StartOfRangeKeeps ==
  ASSUME AccessInv, NEW p \in Goroutines, StartOfRange(p) PROVE AccessInv'
<1>1. Doing(p, "range") /\ Head(code[p]).name = "range" /\ TypeOK /\ InOutline
  BY DEF StartOfRange, AccessInv, Doing
<1>2. PICK t \in Seq(Ops) : t = Tail(code[p])
  BY <1>1, InPlace
<1>3. PICK a \in Modes, b \in Modes :
          Agrees(p, a) /\ Legal(a, Head(code[p]), b) /\ Takes(b, t, Idle)
  BY <1>1, <1>2, InPlace
<1>4. /\ On(p) \in Maps /\ a.assign = "no" /\ b.assign = "no" /\ b.lock = a.lock
      /\ (b.verdict = "sought" => On(p) = "data")
  BY <1>1, <1>3 DEF Legal, On
<1> DEFINE l == IF On(p) = "data" THEN Present ELSE NS
<1>5. /\ UNCHANGED <<proc, mutex, data, assigning, calls>> /\ code' = [code EXCEPT ![p] = t]
      /\ left' = [left EXCEPT ![p] = l] /\ allOK' = [allOK EXCEPT ![p] = TRUE]
  BY <1>2 DEF StartOfRange, Done
<1>6. l \subseteq NS
  BY DEF Present
<1>7. /\ left' \in [Goroutines -> SUBSET NS] /\ left'[p] = l /\ allOK'[p]
      /\ allOK' \in [Goroutines -> BOOLEAN]
      /\ \A q \in Goroutines \ {p} : left'[q] = left[q] /\ allOK'[q] = allOK[q]
  BY <1>5, <1>6, MapsTyped DEF MapTypes
<1>8. b.verdict = "sought" => VerdictAgrees(p)'
  BY <1>4, <1>5, <1>7 DEF VerdictAgrees, Present
<1>9. \A m \in Maps : assigning'[m] = p <=> b.assign = m
  BY <1>3, <1>4, <1>5 DEF Agrees
<1> HIDE DEF l
<1>10. MapStep(p, a, b, t)
  BY <1>4, <1>5, <1>7, <1>8, <1>9, MapsTyped DEF MapStep, MapTypes
<1> QED BY <1>3, <1>10, MapStepKeeps

LEMMA VisitEntryKeeps ==
  ASSUME AccessInv, NEW p \in Goroutines, VisitEntry(p) PROVE AccessInv'
<1>1. /\ Iterating(p) /\ code[p] # <<>> /\ TypeOK /\ InOutline
      /\ Head(code[p]).name \in {"visit", "check"}
  BY DEF VisitEntry, Iterating, Doing, AccessInv
<1>2. PICK t \in Seq(Ops), a \in Modes : t = code[p] /\ Takes(a, t, Idle) /\ Agrees(p, a)
  BY <1>1 DEF InOutline, Takes
<1>3. PICK b \in Modes : Legal(a, Head(code[p]), b)
  BY <1>1, <1>2, FirstTakes
<1>4. a.assign = "no" /\ (a.verdict = "sought" => On(p) = "data")
  BY <1>1, <1>3 DEF Legal, On, Moves
<1>5. PICK n \in left[p] :
          /\ left' = [left EXCEPT ![p] = @ \ {n}]
          /\ allOK' = [allOK EXCEPT ![p] = @ /\ (On(p) = "data" => data[n] = "passed")]
  BY DEF VisitEntry
<1>6. UNCHANGED <<proc, code, mutex, data, assigning, calls>>
  BY DEF VisitEntry
<1>7. /\ left \in [Goroutines -> SUBSET NS] /\ allOK \in [Goroutines -> BOOLEAN]
      /\ code \in [Goroutines -> Seq([name : OpNames, on : Mutexes \cup Maps])]
  BY <1>1 DEF TypeOK
<1> DEFINE ok == allOK[p] /\ (On(p) = "data" => data[n] = "passed")
<1>8. /\ left' \in [Goroutines -> SUBSET NS] /\ left'[p] = left[p] \ {n}
      /\ \A q \in Goroutines \ {p} : left'[q] = left[q]
  BY <1>5, <1>7
<1>9. /\ allOK' \in [Goroutines -> BOOLEAN]
      /\ allOK'[p] <=> ok
      /\ \A q \in Goroutines \ {p} : allOK'[q] = allOK[q]
  <2>1. ok \in BOOLEAN
    OBVIOUS
  <2>2. allOK' = [allOK EXCEPT ![p] = ok]
    BY <1>5
  <2> HIDE DEF ok
  <2> QED BY <1>7, <2>1, <2>2
<1>10. a.verdict = "sought" => VerdictAgrees(p)'
  <2> SUFFICES ASSUME a.verdict = "sought" PROVE VerdictAgrees(p)'
    OBVIOUS
  <2>1. VerdictAgrees(p)
    BY <1>2 DEF Agrees
  <2>2. On(p) = "data" /\ data' = data
    BY <1>4, <1>6
  <2>3. Present' = Present
    BY <2>2 DEF Present
  <2>4. n \in Present /\ left[p] \subseteq Present
    BY <2>1, <1>5 DEF VerdictAgrees
  <2>5. Present \ (left[p] \ {n}) = (Present \ left[p]) \cup {n}
    BY <2>4, <1>5
  <2>6. allOK'[p] <=> \A x \in Present \ left'[p] : data[x] = "passed"
    <3>1. allOK'[p] <=> allOK[p] /\ data[n] = "passed"
      BY <1>9, <2>2
    <3>2. allOK[p] <=> \A x \in Present \ left[p] : data[x] = "passed"
      BY <2>1 DEF VerdictAgrees
    <3>3. Present \ left'[p] = (Present \ left[p]) \cup {n}
      BY <1>8, <2>5
    <3> QED BY <3>1, <3>2, <3>3
  <2> QED BY <1>8, <2>2, <2>3, <2>4, <2>6 DEF VerdictAgrees
<1>11. code' = [code EXCEPT ![p] = t]
  BY <1>2, <1>6, <1>7
<1>12. MapStep(p, a, a, t)
  <2>1. \A m \in Maps : assigning'[m] = p <=> a.assign = m
    BY <1>2, <1>6 DEF Agrees
  <2> QED BY <1>6, <1>8, <1>9, <1>10, <1>11, <2>1, MapsTyped DEF MapStep, MapTypes
<1> QED BY <1>2, <1>12, MapStepKeeps

LEMMA EndOfRangeKeeps ==
  ASSUME AccessInv, NEW p \in Goroutines, EndOfRange(p) PROVE AccessInv'
<1>1. PICK name \in {"visit", "check"} : Doing(p, name)
  BY DEF EndOfRange, Iterating
<1>2. PICK t \in Seq(Ops) : t = Tail(code[p])
  BY <1>1, InPlace DEF AccessInv
<1>3. PICK a \in Modes, b \in Modes :
          Agrees(p, a) /\ Legal(a, Head(code[p]), b) /\ Takes(b, t, Idle)
  BY <1>1, <1>2, InPlace DEF AccessInv
<1>4. b.lock = a.lock /\ a.assign = "no" /\ b.assign = "no" /\ b.verdict = "no"
  BY <1>1, <1>3 DEF Legal, Doing, Moves
<1>5. /\ UNCHANGED <<proc, mutex, data, assigning, allOK, calls>>
      /\ code' = [code EXCEPT ![p] = t] /\ left' = [left EXCEPT ![p] = {}]
  BY <1>2 DEF EndOfRange, Done
<1>6. left' \in [Goroutines -> SUBSET NS] /\ \A q \in Goroutines \ {p} : left'[q] = left[q]
  BY <1>5, MapsTyped DEF MapTypes
<1>7. \A m \in Maps : assigning'[m] = p <=> b.assign = m
  BY <1>3, <1>4, <1>5 DEF Agrees
<1>8. MapStep(p, a, b, t)
  BY <1>4, <1>5, <1>6, <1>7, MapsTyped DEF MapStep, MapTypes
<1> QED BY <1>3, <1>8, MapStepKeeps

(* Nothing but the process ends in a fatal error.                          *)
LEMMA ConcurrentMapAccessKeeps ==
  ASSUME AccessInv, NEW p \in Goroutines, ConcurrentMapAccess(p) PROVE AccessInv'
<1>1. UNCHANGED <<code, mutex, data, assigning, left, allOK, calls>> /\ proc' = "down"
  BY DEF ConcurrentMapAccess
<1>2. TypeOK'
  BY <1>1 DEF AccessInv, TypeOK
<1>3. \A q \in Goroutines : \A c \in Modes : Agrees(q, c) => Agrees(q, c)'
  BY <1>1 DEF Agrees, LockAgrees, VerdictAgrees, Present
<1> QED BY <1>1, <1>2, <1>3 DEF AccessInv, InOutline

-----------------------------------------------------------------------------
(* Goroutines that have nothing left are given outlined code.              *)
LEMMA NewCodeKeeps ==
  ASSUME AccessInv, UNCHANGED <<proc, mutex, data, assigning, left, allOK>>,
         calls' \in Nat, code' \in [Goroutines -> Seq(Ops)],
         \A p \in Goroutines : code'[p] = code[p] \/ (~Running(p) /\ Takes(Idle, code'[p], Idle))
  PROVE  AccessInv'
<1>1. TypeOK'
  BY DEF AccessInv, TypeOK, Ops
<1>2. ASSUME NEW p \in Goroutines
      PROVE  \E a \in Modes : Takes(a, code'[p], Idle) /\ Agrees(p, a)'
  <2>1. PICK a \in Modes : Takes(a, code[p], Idle) /\ Agrees(p, a)
    BY DEF AccessInv, InOutline
  <2>2. Agrees(p, a)'
    BY <2>1 DEF Agrees, LockAgrees, VerdictAgrees, Present
  <2>3. CASE code'[p] = code[p]
    BY <2>1, <2>2, <2>3
  <2>4. CASE ~Running(p) /\ Takes(Idle, code'[p], Idle)
    <3>1. a = Idle
      BY <2>1, <2>4, EmptyTakes DEF Running
    <3> QED BY <2>2, <2>4, <3>1
  <2> QED BY <2>3, <2>4
<1> QED BY <1>1, <1>2 DEF AccessInv, InOutline

LEMMA CodeIsTyped == ASSUME AccessInv PROVE code \in [Goroutines -> Seq(Ops)]
  BY DEF AccessInv, TypeOK, Ops

LEMMA RequestKeeps ==
  ASSUME AccessInv, NEW h \in Pollers, Request(h) PROVE AccessInv'
<1>1. PICK handler \in Handlers : code' = [code EXCEPT ![h] = handler]
  BY DEF Request
<1>2. h \in Goroutines /\ ~Running(h) /\ UNCHANGED <<proc, mutex, data, assigning, left, allOK>>
      /\ calls' = calls /\ calls \in Nat
  BY DEF Request, Goroutines, AccessInv, TypeOK
<1>3. Takes(Idle, handler, Idle) /\ handler \in Seq(Ops)
  BY HandlersTake DEF Takes
<1>4. /\ code' \in [Goroutines -> Seq(Ops)]
      /\ \A p \in Goroutines : code'[p] = IF p = h THEN handler ELSE code[p]
  BY <1>1, <1>2, <1>3, CodeIsTyped
<1> QED BY <1>2, <1>3, <1>4, NewCodeKeeps

LEMMA NextPhaseKeeps == ASSUME AccessInv, NextPhase PROVE AccessInv'
<1>1. /\ UNCHANGED <<proc, mutex, data, assigning, left, allOK>>
      /\ calls' \in Nat /\ \A n \in NS : ~Running(n)
      /\ code' = [p \in Goroutines |-> IF p \in NS THEN Verification ELSE code[p]]
  BY DEF NextPhase, AccessInv, TypeOK
<1>2. Takes(Idle, Verification, Idle) /\ Verification \in Seq(Ops)
  BY GoroutinesTake DEF Takes
<1>3. code' \in [Goroutines -> Seq(Ops)]
  BY <1>1, <1>2, CodeIsTyped
<1> QED BY <1>1, <1>2, <1>3, NewCodeKeeps

LEMMA FinishKeeps == ASSUME AccessInv, Finish PROVE AccessInv'
<1> DEFINE c == PrintSummary \o Save
<1>1. /\ UNCHANGED <<proc, mutex, data, assigning, left, allOK>>
      /\ calls' \in Nat /\ ~Running(Main) /\ Main \in Goroutines
      /\ code' = [code EXCEPT ![Main] = c]
  BY AccessAssumption DEF Finish, Goroutines
<1>2. Takes(Idle, c, Idle) /\ c \in Seq(Ops)
  BY GoroutinesTake DEF Takes
<1> HIDE DEF c
<1>3. /\ code' \in [Goroutines -> Seq(Ops)]
      /\ \A p \in Goroutines : code'[p] = IF p = Main THEN c ELSE code[p]
  BY <1>1, <1>2, CodeIsTyped
<1> QED BY <1>1, <1>2, <1>3, NewCodeKeeps

LEMMA InitInOutline == Init => AccessInv
<1> SUFFICES ASSUME Init PROVE AccessInv
  OBVIOUS
<1>1. \A p \in Goroutines : Takes(Idle, code[p], Idle)
  BY GoroutinesTake DEF Init
<1>2. code \in [Goroutines -> Seq(Ops)]
  BY <1>1 DEF Init, Takes
<1>3. TypeOK
  BY <1>2 DEF Init, TypeOK, Ops
<1>4. ASSUME NEW p \in Goroutines PROVE Agrees(p, Idle)
  <2>1. /\ \A m \in Mutexes : Idle.lock[m] = "none"
        /\ Idle.assign = "no" /\ Idle.verdict = "no"
    BY DEF Idle, Mode
  <2>2. \A m \in Mutexes : /\ mutex[m].writer = Nobody /\ mutex[m].queue = {}
                           /\ mutex[m].readers[p] = 0
    BY DEF Init
  <2>3. \A m \in Maps : assigning[m] = Nobody
    BY DEF Init
  <2>4. \A m \in Mutexes : LockAgrees(p, m, "none")
    BY <2>2, AccessAssumption DEF LockAgrees
  <2> QED BY <2>1, <2>3, <2>4, AccessAssumption DEF Agrees, Maps
<1>5. Idle \in Modes
  BY ModeType DEF Idle
<1> QED BY <1>1, <1>3, <1>4, <1>5 DEF AccessInv, InOutline

LEMMA AccessKept == ASSUME AccessInv, [Next]_vars PROVE AccessInv'
<1>1. ASSUME NEW p \in Goroutines, Step(p) PROVE AccessInv'
  BY <1>1, AnnounceKeeps, EnterKeeps, UnlockKeeps, RLockKeeps, AdmittedKeeps, RUnlockKeeps,
     OpenEntryKeeps, SettleEntryKeeps, AssignGaugeKeeps, AssignedKeeps, StartOfRangeKeeps,
     VisitEntryKeeps, EndOfRangeKeeps, ConcurrentMapAccessKeeps DEF Step
<1>2. CASE UNCHANGED vars
  <2>1. TypeOK'
    BY <1>2 DEF AccessInv, TypeOK, vars
  <2>2. \A q \in Goroutines : \A c \in Modes : Agrees(q, c) => Agrees(q, c)'
    BY <1>2 DEF Agrees, LockAgrees, VerdictAgrees, Present, vars
  <2>3. code' = code
    BY <1>2 DEF vars
  <2> QED BY <2>1, <2>2, <2>3 DEF AccessInv, InOutline
<1> QED BY <1>1, <1>2, RequestKeeps, NextPhaseKeeps, FinishKeeps DEF Next, Stopped

LEMMA AccessInvariant == Spec => []AccessInv
<1>1. AccessInv /\ [Next]_vars => AccessInv'
  BY AccessKept
<1> QED BY <1>1, InitInOutline, PTL DEF Spec

-----------------------------------------------------------------------------
(* The state of the component has its types: in particular no RUnlock is   *)
(* one too many.                                                           *)
THEOREM TypesHold == Spec => []TypeOK
<1>1. AccessInv => TypeOK
  BY DEF AccessInv
<1> QED BY <1>1, AccessInvariant, PTL

(* Whoever iterates a map under its mutex meets no assignment to it, so    *)
(* AllPassed, DataSummary, Print and Save never end the process.           *)
THEOREM LockedReadsSafe == Spec => []LockedReadsAreSafe
<1>1. ASSUME AccessInv, NEW p \in Goroutines, Iterating(p), HoldsRLock(p, On(p))
      PROVE  assigning[On(p)] = Nobody
  <2>1. On(p) \in Maps
    <3>1. PICK name \in {"visit", "check"} : Doing(p, name)
      BY <1>1 DEF Iterating
    <3>2. PICK a \in Modes, b \in Modes : Legal(a, Head(code[p]), b)
      BY <1>1, <3>1, InPlace DEF AccessInv
    <3> QED BY <3>1, <3>2 DEF Legal, Doing, On, Maps
  <2>2. ASSUME assigning[On(p)] # Nobody PROVE FALSE
    <3>1. PICK q \in Goroutines : assigning[On(p)] = q
      BY <1>1, <2>1, <2>2 DEF AccessInv, TypeOK
    <3>2. PICK c \in Modes : Agrees(q, c)
      BY <1>1 DEF AccessInv, InOutline
    <3>3. c.assign = On(p)
      BY <2>1, <3>1, <3>2 DEF Agrees
    <3>4. Guard[On(p)] \in Mutexes /\ c.lock[Guard[On(p)]] = "writing"
      BY <2>1, <3>3 DEF Modes, Maps, Guard, Mutexes
    <3>5. mutex[Guard[On(p)]].readers[p] = 0
      BY <3>2, <3>4 DEF Agrees, LockAgrees
    <3> QED BY <1>1, <3>5 DEF HoldsRLock
  <2> QED BY <2>2
<1>2. AccessInv => LockedReadsAreSafe
  BY <1>1 DEF LockedReadsAreSafe
<1> QED BY <1>2, AccessInvariant, PTL

(* The verdict of /passed, of /status and of the final report is that of   *)
(* one state of the report.                                                *)
THEOREM VerdictsAreSnapshots == Spec => []VerdictIsSnapshot
<1>1. ASSUME AccessInv, NEW p \in Goroutines, Doing(p, "check") PROVE VerdictAgrees(p)
  <2>1. Head(code[p]).name = "check"
    BY <1>1 DEF Doing
  <2>2. PICK a \in Modes, b \in Modes : Agrees(p, a) /\ Legal(a, Head(code[p]), b)
    BY <1>1, InPlace DEF AccessInv
  <2>3. a.verdict = "sought"
    BY <2>1, <2>2 DEF Legal
  <2> QED BY <2>2, <2>3 DEF Agrees
<1>2. AccessInv => VerdictIsSnapshot
  BY <1>1 DEF VerdictIsSnapshot, VerdictAgrees
<1> QED BY <1>2, AccessInvariant, PTL
=============================================================================
