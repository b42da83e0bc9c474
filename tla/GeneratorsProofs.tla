------------------------- MODULE GeneratorsProofs -------------------------
(***************************************************************************)
(* The data generator: the precedence of its settings for every            *)
(* combination of sources, and for every number of orders, ticks, lives    *)
(* and failures the types, that nothing is announced that is not stored,   *)
(* that nothing is seeded twice, and what a clean stop leaves behind.      *)
(***************************************************************************)
EXTENDS Generators, SequenceTheorems, TLAPS

\* config.py and company_profile.py resolve a key as docs/Generators.md says:
\* environment, meta store, overlay, first file with anything in it, baseline.
\* The overlay and the meta store are merged before the environment is looked at,
\* and a file that exists without the key hides the file after it.
THEOREM SettingsPrecedence == \A s \in Sources : PickBool(s) <=> Documented(s)
<1> SUFFICES ASSUME NEW s \in Sources PROVE PickBool(s) <=> Documented(s)
  OBVIOUS
<1>1. /\ s.env \in {"unset", "blank", "on", "other"}
      /\ s.explicit \in File /\ s.directory \in File
      /\ s.overlay \in Layer /\ s.meta \in Layer
  BY DEF Sources
<1>2. CASE s.env \in {"on", "other"}
  BY <1>2 DEF PickBool, Documented
<1>3. CASE s.env \in {"unset", "blank"}
  <2>1. PickBool(s) <=> Merged(s) = "on"
    BY <1>3 DEF PickBool
  <2>2. CASE s.meta # "absent"
    BY <1>3, <2>1, <2>2 DEF Merged, Updated, Documented
  <2>3. CASE s.meta = "absent" /\ s.overlay # "absent"
    BY <1>3, <2>1, <2>3 DEF Merged, Updated, Overlaid, Documented
  <2>4. CASE s.meta = "absent" /\ s.overlay = "absent"
    <3>1. Merged(s) = Updated(Baseline, FileLayer(s))
      BY <2>4 DEF Merged, Updated, Overlaid
    <3> QED
      BY <1>1, <1>3, <2>1, <2>4, <3>1 DEF Updated, Baseline, FileLayer, FirstFile, Documented, File, Layer
  <2> QED BY <2>2, <2>3, <2>4
<1> QED BY <1>1, <1>2, <1>3

-----------------------------------------------------------------------------
(* The invariant.                                                          *)

\* Where the process has seeded what it needs, and where an order is at hand.
Ticking == {"tick", "clicks", "insert", "items", "announce", "notify", "pay", "notify_pay", "ship", "flush", "ext",
            "flush_ext", "batch", "stopping", "close", "stopped"}
AtOrder == {"items", "announce", "notify", "pay", "notify_pay", "ship"}

\* The connection, and how far the seeds of this life are.
StartUp ==
    /\ pc \in {"connect", "down"} => conn = "none"
    /\ conn # "none" => oltpOn
    /\ pc = "connect" => at = 1
    /\ pc = "seed" => at \in 1..4 /\ (at > 2 => rows["users"] > 0) /\ (at > 3 => rows["products"] > 0)
    /\ pc = "connect" \/ (pc = "seed" /\ at = 1) => rows["sellers"] < life
    /\ pc = "seed_ext" => at \in 1..7 /\ (at = 5 => rows["managers"] = 0 /\ rows["employees"] = 1)
    /\ pc \in Ticking \cup {"seed_ext"} /\ oltpOn => rows["users"] > 0 /\ rows["products"] > 0
    /\ rows["managers"] <= rows["employees"]

\* The order at hand, and room for the orders that are left in the tick.
OrderAtHand ==
    /\ pc = "insert" => Len(orders) + todo <= MaxOrders
    /\ pc \in AtOrder => todo > 0 /\ Len(orders) + todo <= MaxOrders + 1
    /\ pc = "items" => Len(orders) > 0 /\ conn = "open"
    /\ pc \in AtOrder \ {"items"} /\ oltpOn => Len(orders) > 0 /\ orders[Len(orders)] = "complete"

GenInv == TypeOK /\ StartUp /\ OrderAtHand /\ AnnouncedIsStored /\ SeededOnce

\* Without failures, every order but the one at hand is complete and told.
Told(o) == orders[o] = "complete" /\ {Message("order", o), Message("payment", o)} \subseteq sent \cup buffer

CleanRun == faults = 0 =>
    /\ pc # "down" /\ conn # "lost"
    /\ ~oltpOn => orders = <<>>
    /\ \A o \in DOMAIN orders : Told(o) \/ (o = Len(orders) /\ pc \in AtOrder)
    /\ oltpOn /\ pc \in {"notify", "pay", "notify_pay", "ship"} => Message("order", Len(orders)) \in sent \cup buffer
    /\ oltpOn /\ pc \in {"notify_pay", "ship"} => Message("payment", Len(orders)) \in sent \cup buffer
    /\ pc \in {"close", "stopped"} => buffer = {}

-----------------------------------------------------------------------------
LEMMA GeneratorConstants ==
    /\ PublishAttempts \in Nat /\ PublishAttempts > 0
    /\ PerTick \in Nat /\ MaxOrders \in Nat /\ MaxTicks \in Nat /\ MaxFaults \in Nat
    /\ MaxLives \in Nat /\ MaxLives > 0
BY GeneratorAssumption DEF GeneratorAssumption

\* The tables, the seeds and the emitters, in their orders.
LEMMA Orders ==
    /\ Len(Reference) = 3 /\ DOMAIN Reference = 1..3
    /\ Reference[1] = "sellers" /\ Reference[2] = "users" /\ Reference[3] = "products"
    /\ Len(SeedOrder) = 6 /\ DOMAIN SeedOrder = 1..6
    /\ SeedOrder[1] = SeedCampaigns /\ SeedOrder[2] = SeedSeoKeywords /\ SeedOrder[3] = SeedFeatureFlags
    /\ SeedOrder[4] = SeedEmployees /\ SeedOrder[5] = SeedManagers /\ SeedOrder[6] = SeedGl
    /\ Len(TickOrder) = 10 /\ DOMAIN TickOrder = 1..10
BY DEF Reference, SeedOrder, TickOrder

LEMMA SeedTables ==
    /\ Tables = {"sellers", "users", "products", "marketing_campaigns", "seo_keywords", "feature_flags", "employees",
                 "managers", "general_ledger"}
    /\ \A i \in 1..6 : SeedOrder[i].table \in Tables \ {"sellers", "users", "products"}
    /\ \A i \in 1..6 : i # 5 => SeedOrder[i].after = "none" /\ SeedOrder[i].table # "managers"
    /\ \A i \in 1..6 : i # 4 => SeedOrder[i].table # "employees"
    /\ SeedOrder[5].after = "employees" /\ SeedOrder[5].table = "managers" /\ SeedOrder[4].table = "employees"
<1>1. 1..6 = {1, 2, 3, 4, 5, 6}
  OBVIOUS
<1>2. /\ SeedOrder[1].table = "marketing_campaigns" /\ SeedOrder[1].after = "none"
      /\ SeedOrder[2].table = "seo_keywords" /\ SeedOrder[2].after = "none"
      /\ SeedOrder[3].table = "feature_flags" /\ SeedOrder[3].after = "none"
      /\ SeedOrder[4].table = "employees" /\ SeedOrder[4].after = "none"
      /\ SeedOrder[5].table = "managers" /\ SeedOrder[5].after = "employees"
      /\ SeedOrder[6].table = "general_ledger" /\ SeedOrder[6].after = "none"
  BY Orders DEF SeedCampaigns, SeedSeoKeywords, SeedFeatureFlags, SeedEmployees, SeedManagers, SeedGl, Seed
<1>4. Extended = {"marketing_campaigns", "seo_keywords", "feature_flags", "employees", "managers", "general_ledger"}
  BY <1>1, <1>2, Orders DEF Extended
<1>5. {Reference[i] : i \in DOMAIN Reference} = {"sellers", "users", "products"}
  <2>1. 1..3 = {1, 2, 3}
    OBVIOUS
  <2> QED BY <2>1, Orders
<1>6. Tables = {"sellers", "users", "products", "marketing_campaigns", "seo_keywords", "feature_flags", "employees",
                "managers", "general_ledger"}
  BY <1>4, <1>5 DEF Tables
<1> QED BY <1>1, <1>2, <1>6

\* The emitters have names of their own, and what they need is a seeded table.
LEMMA TickEmitters ==
    \A i \in 1..10 : /\ TickOrder[i].name \in Emitters
                     /\ TickOrder[i].table = "none" \/ TickOrder[i].table \in Tables
                     /\ \A j \in 1..10 : TickOrder[i].name = TickOrder[j].name => TickOrder[i].table = TickOrder[j].table
<1>1. /\ TickOrder[1] = EmailStreams /\ TickOrder[2] = TimeTracking /\ TickOrder[3] = OrganicSessions
      /\ TickOrder[4] = FeatureEval /\ TickOrder[5] = WebPerf /\ TickOrder[6] = ErrorLogs
      /\ TickOrder[7] = Performance /\ TickOrder[8] = SeoRankings /\ TickOrder[9] = HrPerformance
      /\ TickOrder[10] = WebVitals
  BY DEF TickOrder
<1>2. /\ TickOrder[1].name = "email" /\ TickOrder[1].table = "marketing_campaigns"
      /\ TickOrder[2].name = "time_tracking" /\ TickOrder[2].table = "employees"
      /\ TickOrder[3].name = "organic" /\ TickOrder[3].table = "none"
      /\ TickOrder[4].name = "feature_eval" /\ TickOrder[4].table = "none"
      /\ TickOrder[5].name = "web_perf" /\ TickOrder[5].table = "none"
      /\ TickOrder[6].name = "error_logs" /\ TickOrder[6].table = "none"
      /\ TickOrder[7].name = "performance" /\ TickOrder[7].table = "marketing_campaigns"
      /\ TickOrder[8].name = "seo_rankings" /\ TickOrder[8].table = "seo_keywords"
      /\ TickOrder[9].name = "hr_performance" /\ TickOrder[9].table = "employees"
      /\ TickOrder[10].name = "web_vitals" /\ TickOrder[10].table = "none"
  BY <1>1 DEF EmailStreams, TimeTracking, OrganicSessions, FeatureEval, WebPerf, ErrorLogs, Performance,
              SeoRankings, HrPerformance, WebVitals, Emitter
<1>3. 1..10 = {1, 2, 3, 4, 5, 6, 7, 8, 9, 10}
  OBVIOUS
<1>4. \A i \in 1..10 : TickOrder[i].name \in Emitters
  BY <1>2, <1>3 DEF Emitters
<1>5. \A i \in 1..10 : TickOrder[i].table = "none" \/ TickOrder[i].table \in Tables
  BY <1>2, <1>3, SeedTables
<1>6. \A i, j \in 1..10 : TickOrder[i].name = TickOrder[j].name => TickOrder[i].table = TickOrder[j].table
  BY <1>2, <1>3
<1> QED BY <1>4, <1>5, <1>6

LEMMA GeneratorTypes ==
    ASSUME TypeOK
    PROVE  /\ life \in Nat /\ tick \in Nat /\ todo \in Nat /\ at \in Nat /\ attempts \in Nat /\ faults \in Nat
           /\ orders \in Seq({"bare", "complete"}) /\ Len(orders) \in Nat /\ DOMAIN orders = 1..Len(orders)
           /\ rows \in [Tables -> Nat] /\ \A t \in Tables : rows[t] \in Nat
           /\ at \in 1..11 /\ attempts \in 0..PublishAttempts
           /\ \A m \in sent \cup buffer : m \in Messages
<1>1. life \in Nat /\ tick \in Nat /\ todo \in Nat /\ attempts \in Nat /\ faults \in Nat
  BY GeneratorConstants DEF TypeOK
<1>2. at \in 1..11
  BY Orders DEF TypeOK
<1>3. orders \in Seq({"bare", "complete"}) /\ rows \in [Tables -> Nat]
  BY DEF TypeOK
<1>4. attempts \in 0..PublishAttempts /\ \A m \in sent \cup buffer : m \in Messages
  BY DEF TypeOK
<1> QED BY <1>1, <1>2, <1>3, <1>4

-----------------------------------------------------------------------------
(* What every step of the running process keeps.                           *)

\* What a message needs to be stored.
Backed(m) ==
    /\ m.order > 0 => /\ m.order <= Len(orders) /\ orders[m.order] = "complete"
                      /\ rows["users"] > 0 /\ rows["products"] > 0
    /\ \A i \in DOMAIN TickOrder :
          TickOrder[i].name = m.kind /\ TickOrder[i].table # "none" => rows[TickOrder[i].table] > 0

OrdersKept ==
    /\ orders' \in Seq({"bare", "complete"}) /\ Len(orders') <= MaxOrders
    /\ Len(orders) <= Len(orders')
    /\ \A o \in DOMAIN orders : orders[o] = "complete" => orders'[o] = "complete"

LEMMA BackedKept ==
    ASSUME TypeOK, OrdersKept, \A t \in Tables : rows[t] > 0 => rows'[t] > 0, NEW m \in Messages, Backed(m)
    PROVE  Backed(m)'
<1>1. m.order \in Nat /\ Len(orders) \in Nat /\ Len(orders') \in Nat /\ DOMAIN orders = 1..Len(orders)
  BY GeneratorTypes, GeneratorConstants DEF Messages, OrdersKept
<1>2. {"users", "products"} \subseteq Tables /\ \A i \in DOMAIN TickOrder : TickOrder[i].table # "none" => TickOrder[i].table \in Tables
  BY SeedTables, TickEmitters, Orders
<1>3. m.order > 0 => m.order \in DOMAIN orders
  BY <1>1 DEF Backed
<1>4. m.order > 0 => m.order <= Len(orders') /\ orders'[m.order] = "complete" /\ rows'["users"] > 0 /\ rows'["products"] > 0
  BY <1>1, <1>2, <1>3 DEF Backed, OrdersKept
<1> QED BY <1>2, <1>4 DEF Backed

LEMMA StoredKept ==
    ASSUME TypeOK, AnnouncedIsStored, OrdersKept, \A t \in Tables : rows[t] > 0 => rows'[t] > 0,
           \A m \in sent' \cup buffer' : m \in sent \cup buffer \/ (m \in Messages /\ Backed(m))
    PROVE  AnnouncedIsStored' /\ sent' \subseteq Messages /\ buffer' \subseteq Messages
<1>1. \A m \in sent \cup buffer : m \in Messages /\ Backed(m)
  BY GeneratorTypes DEF AnnouncedIsStored, Backed
<1>2. \A m \in sent' \cup buffer' : m \in Messages /\ Backed(m)'
  BY <1>1, BackedKept
<1> QED BY <1>2 DEF AnnouncedIsStored, Backed

\* A step of a process that has seeded what it needs.
RunStep ==
    /\ pc \in Ticking /\ pc' \in Ticking /\ UNCHANGED <<oltpOn, life, rows>>
    /\ conn' \in {"none", "open", "lost"} /\ (conn' # "none" => conn # "none")
    /\ stop' \in BOOLEAN /\ tick' \in 0..MaxTicks /\ todo' \in 0..PerTick
    /\ at' \in 1..11 /\ attempts' \in 0..PublishAttempts /\ faults' \in 0..MaxFaults
    /\ OrdersKept /\ OrderAtHand'
    /\ \A m \in sent' \cup buffer' : m \in sent \cup buffer \/ (m \in Messages /\ Backed(m))

LEMMA RunStepKeeps == ASSUME GenInv, RunStep PROVE GenInv'
<1>1. /\ pc \in Ticking /\ pc' \in Ticking /\ UNCHANGED <<oltpOn, life, rows>>
      /\ conn' # "none" => conn # "none"
  BY DEF RunStep
<1>2. TypeOK /\ StartUp /\ AnnouncedIsStored /\ SeededOnce
  BY DEF GenInv
<1>3. AnnouncedIsStored' /\ sent' \subseteq Messages /\ buffer' \subseteq Messages
  BY <1>1, <1>2, StoredKept DEF RunStep
<1>4. TypeOK'
  <2>1. at' \in 1..Len(TickOrder) + 1
    BY Orders DEF RunStep
  <2> QED BY <1>1, <1>2, <1>3, <2>1 DEF RunStep, OrdersKept, TypeOK, Ticking
<1>5. StartUp'
  BY <1>1, <1>2 DEF StartUp, Ticking
<1>6. SeededOnce'
  BY <1>1, <1>2 DEF SeededOnce
<1> QED BY <1>3, <1>4, <1>5, <1>6 DEF GenInv, RunStep

\* What a step leaves alone that it does not name.
LEMMA RunTypes ==
    ASSUME GenInv
    PROVE  /\ oltpOn \in BOOLEAN /\ conn \in {"none", "open", "lost"} /\ stop \in BOOLEAN
           /\ tick \in 0..MaxTicks /\ todo \in 0..PerTick /\ at \in 1..11 /\ attempts \in 0..PublishAttempts
           /\ faults \in 0..MaxFaults /\ 0 \in 0..PublishAttempts
           /\ Fault => faults' \in 0..MaxFaults /\ faults' # 0
           /\ UNCHANGED orders => OrdersKept
<1>1. TypeOK
  BY DEF GenInv
<1>2. Fault => faults' \in 0..MaxFaults /\ faults' # 0
  BY <1>1, GeneratorConstants, GeneratorTypes DEF Fault
<1>3. UNCHANGED orders => OrdersKept
  BY <1>1, GeneratorTypes DEF OrdersKept, TypeOK
<1>4. 0 \in 0..PublishAttempts
  BY GeneratorConstants
<1> QED BY <1>1, <1>2, <1>3, <1>4, GeneratorTypes DEF TypeOK

\* What an order announces is stored.
LEMMA OrderMessage ==
    ASSUME GenInv, pc \in AtOrder \ {"items"}, NEW kind \in {"order", "payment", "shipment"}
    PROVE  Message(kind, OrderId) \in Messages /\ Backed(Message(kind, OrderId))
<1>1. TypeOK /\ pc \in Ticking
  BY DEF GenInv, AtOrder, Ticking
<1>2. oltpOn => /\ Len(orders) > 0 /\ orders[Len(orders)] = "complete"
                /\ rows["users"] > 0 /\ rows["products"] > 0
  BY <1>1 DEF GenInv, OrderAtHand, StartUp
<1>3. OrderId \in 0..MaxOrders
  BY <1>1, GeneratorTypes, GeneratorConstants DEF OrderId, TypeOK
<1>4. kind \in Kinds /\ kind \notin Emitters
  BY DEF Kinds, Emitters
<1>5. \A i \in DOMAIN TickOrder : TickOrder[i].name # kind
  BY <1>4, TickEmitters, Orders
<1>6. Message(kind, OrderId).kind = kind /\ Message(kind, OrderId).order = OrderId /\ Message(kind, OrderId) \in Messages
  BY <1>3, <1>4 DEF Message, Messages
<1>7. OrderId > 0 => oltpOn /\ OrderId = Len(orders) /\ OrderId <= Len(orders)
  BY <1>1, GeneratorTypes DEF OrderId
<1> QED BY <1>2, <1>5, <1>6, <1>7 DEF Backed

\* What an emitter sends has its ids from a seeded table; the files have none.
LEMMA EmitterMessage ==
    ASSUME GenInv, NEW i \in DOMAIN TickOrder, Emitting(TickOrder[i])
    PROVE  Message(TickOrder[i].name, 0) \in Messages /\ Backed(Message(TickOrder[i].name, 0))
<1>1. i \in 1..10 /\ TickOrder[i].name \in Emitters
  BY TickEmitters, Orders
<1>2. TickOrder[i].table # "none" => rows[TickOrder[i].table] > 0
  BY DEF Emitting
<1>3. TickOrder[i].name \in Kinds /\ 0 \in 0..MaxOrders
  BY <1>1, GeneratorConstants DEF Kinds
<1> DEFINE m == Message(TickOrder[i].name, 0)
<1>4. m \in Messages /\ m.kind = TickOrder[i].name /\ m.order = 0
  BY <1>3 DEF Message, Messages
<1> HIDE DEF m
<1>5. \A j \in DOMAIN TickOrder : TickOrder[j].name = m.kind => TickOrder[j].table = TickOrder[i].table
  BY <1>1, <1>4, TickEmitters, Orders
<1>6. Backed(m)
  BY <1>2, <1>4, <1>5 DEF Backed
<1> QED BY <1>4, <1>6 DEF m

LEMMA FileMessage ==
    ASSUME NEW i \in 1..3
    PROVE  Message(Files[i], 0) \in Messages /\ Backed(Message(Files[i], 0))
<1>1. 1..3 = {1, 2, 3}
  OBVIOUS
<1>2. Files[i] \in {"payments_file", "returns_file", "catalog_file"}
  BY <1>1 DEF Files
<1>3. Files[i] \in Kinds /\ Files[i] \notin Emitters /\ 0 \in 0..MaxOrders
  BY <1>2, GeneratorConstants DEF Kinds, Emitters
<1> DEFINE m == Message(Files[i], 0)
<1>4. m \in Messages /\ m.kind = Files[i] /\ m.order = 0
  BY <1>3 DEF Message, Messages
<1> HIDE DEF m
<1>5. \A j \in DOMAIN TickOrder : TickOrder[j].name # m.kind
  BY <1>3, <1>4, TickEmitters, Orders
<1>6. Backed(m)
  BY <1>4, <1>5 DEF Backed
<1> QED BY <1>4, <1>6 DEF m

-----------------------------------------------------------------------------
(* The steps of the running process.                                       *)

\* A step that leaves the orders and is not at one, or goes on with it.
LEMMA QuietStep ==
    ASSUME GenInv, pc \in Ticking, pc' \in Ticking, UNCHANGED <<oltpOn, life, rows, orders>>,
           conn' \in {"none", "open", "lost"}, conn' # "none" => conn # "none",
           stop' \in BOOLEAN, tick' \in 0..MaxTicks, todo' \in 0..PerTick,
           at' \in 1..11, attempts' \in 0..PublishAttempts, faults' \in 0..MaxFaults,
           \/ pc' \notin AtOrder \cup {"insert"}
           \/ pc' = pc /\ UNCHANGED <<todo, conn>>
           \/ pc \in AtOrder \ {"items"} /\ pc' \in AtOrder \ {"items"} /\ todo' = todo,
           \A m \in sent' \cup buffer' : m \in sent \cup buffer \/ (m \in Messages /\ Backed(m))
    PROVE  GenInv'
<1>1. OrderAtHand
  BY DEF GenInv
<1>2. OrderAtHand'
  <2>1. CASE pc' \notin AtOrder \cup {"insert"}
    BY <2>1 DEF OrderAtHand, AtOrder
  <2>2. CASE pc' = pc /\ UNCHANGED <<todo, conn>>
    BY <1>1, <2>2 DEF OrderAtHand
  <2>3. CASE pc \in AtOrder \ {"items"} /\ pc' \in AtOrder \ {"items"} /\ todo' = todo
    BY <1>1, <2>3 DEF OrderAtHand, AtOrder
  <2> QED BY <2>1, <2>2, <2>3
<1>3. OrdersKept
  BY RunTypes
<1> QED BY <1>2, <1>3, RunStepKeeps DEF RunStep

LEMMA StartTickKeeps == ASSUME GenInv, StartTick PROVE GenInv'
<1>1. /\ pc = "tick" /\ pc' = "clicks" /\ tick < MaxTicks /\ tick' = tick + 1
      /\ UNCHANGED <<oltpOn, stop, life, todo, at, attempts, conn, orders, rows, buffer, sent, faults>>
  BY DEF StartTick, oltp, out
<1>2. tick' \in 0..MaxTicks
  BY <1>1, RunTypes, GeneratorConstants
<1> QED BY <1>1, <1>2, RunTypes, QuietStep DEF Ticking, AtOrder

\* The number of orders leaves room for each of them.
LEMMA ClicksKeeps == ASSUME GenInv, Clicks PROVE GenInv'
<1>1. /\ pc = "clicks" /\ UNCHANGED <<oltpOn, stop, life, tick, conn, orders, rows, buffer, sent>>
      /\ \/ pc' = "insert" /\ attempts' = 0 /\ UNCHANGED <<at, faults>>
              /\ todo' \in 0..PerTick /\ Len(orders) + todo' <= MaxOrders
         \/ pc' = "tick" /\ at' = 1 /\ attempts' = 0 /\ Fault /\ UNCHANGED todo
  BY DEF Clicks, Caught, oltp, out
<1>2. CASE pc' = "insert"
  <2>1. OrderAtHand'
    BY <1>1, <1>2 DEF OrderAtHand, AtOrder
  <2> QED BY <1>1, <1>2, <2>1, RunTypes, RunStepKeeps DEF RunStep, Ticking
<1>3. CASE pc' = "tick"
  BY <1>1, <1>3, RunTypes, QuietStep DEF Ticking, AtOrder
<1> QED BY <1>1, <1>2, <1>3

\* An order is appended, with room for it.
LEMMA InsertOrderKeeps == ASSUME GenInv, InsertOrder PROVE GenInv'
<1>1. /\ pc = "insert" /\ todo > 0 /\ UNCHANGED <<oltpOn, stop, life, tick, todo, at, attempts, rows, buffer, sent>>
      /\ \/ ~oltpOn /\ pc' = "announce" /\ UNCHANGED <<conn, orders, faults>>
         \/ conn = "open" /\ pc' = "items" /\ orders' = Inserted /\ UNCHANGED <<conn, faults>>
         \/ conn = "open" /\ pc' = "tick" /\ Fault /\ conn' \in {"open", "lost"} /\ orders' \in {orders, Inserted}
         \/ conn = "lost" /\ pc' = "tick" /\ UNCHANGED <<conn, orders, faults>>
  BY DEF InsertOrder, Goto, local, out
<1>2. TypeOK /\ Len(orders) + todo <= MaxOrders
  BY <1>1 DEF GenInv, OrderAtHand
<1>3. /\ Inserted \in Seq({"bare", "complete"}) /\ Len(Inserted) = Len(orders) + 1
      /\ \A o \in DOMAIN orders : Inserted[o] = orders[o]
  BY <1>2, GeneratorTypes DEF Inserted
<1>4. Len(orders) \in Nat /\ todo \in Nat
  BY <1>2, GeneratorTypes
<1>5. OrdersKept
  <2>1. CASE orders' = orders
    BY <2>1, RunTypes
  <2>2. CASE orders' = Inserted
    BY <1>1, <1>2, <1>3, <1>4, <2>2, GeneratorConstants DEF OrdersKept
  <2> QED BY <1>1, <2>1, <2>2
<1>6. OrderAtHand'
  <2>1. CASE pc' = "announce"
    BY <1>1, <1>2, <1>4, <2>1, GeneratorConstants DEF OrderAtHand, AtOrder
  <2>2. CASE pc' = "items"
    BY <1>1, <1>2, <1>3, <1>4, <2>2, GeneratorConstants DEF OrderAtHand, AtOrder
  <2>3. CASE pc' = "tick"
    BY <2>3 DEF OrderAtHand, AtOrder
  <2> QED BY <1>1, <2>1, <2>2, <2>3
<1> QED BY <1>1, <1>5, <1>6, RunTypes, RunStepKeeps DEF RunStep, Ticking

LEMMA InsertItemsKeeps == ASSUME GenInv, InsertItems PROVE GenInv'
<1>1. /\ pc = "items" /\ UNCHANGED <<oltpOn, stop, life, tick, todo, at, attempts, rows, buffer, sent>>
      /\ \/ pc' = "announce" /\ orders' = Completed /\ UNCHANGED <<conn, faults>>
         \/ pc' = "tick" /\ Fault /\ conn' \in {"open", "lost"} /\ orders' \in {orders, Completed}
  BY DEF InsertItems, Goto, local, out
<1>2. TypeOK /\ conn = "open" /\ Len(orders) > 0 /\ todo > 0 /\ Len(orders) + todo <= MaxOrders + 1
  BY <1>1 DEF GenInv, OrderAtHand, AtOrder
<1>3. /\ Completed \in Seq({"bare", "complete"}) /\ Len(Completed) = Len(orders)
      /\ Completed[Len(orders)] = "complete"
      /\ \A o \in DOMAIN orders : Completed[o] = orders[o] \/ Completed[o] = "complete"
  BY <1>2, GeneratorTypes DEF Completed
<1>4. OrdersKept
  <2>1. CASE orders' = orders
    BY <2>1, RunTypes
  <2>2. CASE orders' = Completed
    BY <1>2, <1>3, <2>2, GeneratorTypes DEF OrdersKept, TypeOK
  <2> QED BY <1>1, <2>1, <2>2
<1>5. OrderAtHand'
  BY <1>1, <1>2, <1>3 DEF OrderAtHand, AtOrder
<1>6. conn' \in {"none", "open", "lost"} /\ (conn' # "none" => conn # "none")
  BY <1>1, <1>2
<1> QED BY <1>1, <1>4, <1>5, <1>6, RunTypes, RunStepKeeps DEF RunStep, Ticking

\* The three messages of an order.
LEMMA OrderEvents == ASSUME GenInv, Announce \/ Pay \/ Ship \/ NoShip PROVE GenInv'
<1>1. /\ UNCHANGED <<oltpOn, stop, life, tick, at, conn, orders, rows, sent, faults>>
      /\ attempts' \in 0..PublishAttempts
  BY RunTypes DEF Announce, Pay, Ship, NoShip, PublishOrder, Queued, NextOrder, oltp
<1>2. /\ pc \in AtOrder \ {"items"}
      /\ \/ buffer' = buffer
         \/ \E kind \in {"order", "payment", "shipment"} : buffer' = buffer \cup {Message(kind, OrderId)}
  BY DEF Announce, Pay, Ship, NoShip, PublishOrder, Queued, AtOrder
<1>3. \A m \in sent' \cup buffer' : m \in sent \cup buffer \/ (m \in Messages /\ Backed(m))
  BY <1>1, <1>2, OrderMessage
<1>4. CASE Announce \/ Pay
  <2>1. pc' \in AtOrder \ {"items"} /\ todo' = todo
    BY <1>4 DEF Announce, Pay, PublishOrder, AtOrder
  <2> QED BY <1>1, <1>2, <1>3, <2>1, RunTypes, QuietStep DEF Ticking, AtOrder
<1>5. CASE Ship \/ NoShip
  <2>1. pc = "ship" /\ pc' = "insert" /\ todo' = todo - 1
    BY <1>5 DEF Ship, NoShip, NextOrder
  <2>2. TypeOK /\ todo > 0 /\ Len(orders) + todo <= MaxOrders + 1
    BY <2>1 DEF GenInv, OrderAtHand, AtOrder
  <2>3. todo' \in 0..PerTick
    BY <2>1, <2>2, RunTypes, GeneratorConstants
  <2>4. OrderAtHand'
    BY <1>1, <2>1, <2>2, GeneratorTypes, GeneratorConstants DEF OrderAtHand, AtOrder
  <2>5. pc \in Ticking /\ pc' \in Ticking
    BY <2>1 DEF Ticking
  <2> QED BY <1>1, <1>3, <2>3, <2>4, <2>5, RunTypes, RunStepKeeps DEF RunStep
<1> QED BY <1>4, <1>5

\* The calls to Redis, and the end of the orders of a tick.
LEMMA RedisKeeps == ASSUME GenInv, Notify \/ NotifyPayment \/ OrdersDone PROVE GenInv'
<1>1. /\ UNCHANGED <<oltpOn, stop, life, tick, todo, at, attempts, conn, orders, rows, buffer, sent>>
      /\ faults' \in 0..MaxFaults
  BY RunTypes DEF Notify, NotifyPayment, OrdersDone, Redis, Goto, local, oltp, out
<1>2. /\ pc \in Ticking /\ pc' \in Ticking
      /\ \/ pc' \notin AtOrder \cup {"insert"}
         \/ pc \in AtOrder \ {"items"} /\ pc' \in AtOrder \ {"items"}
  BY DEF Notify, NotifyPayment, OrdersDone, Redis, Goto, Ticking, AtOrder
<1> QED BY <1>1, <1>2, RunTypes, QuietStep

\* The producer: a full queue, a new producer, and the exception.
LEMMA PublisherKeeps == ASSUME GenInv, QueueFull \/ Recreate \/ PublishRaises PROVE GenInv'
<1>1. /\ UNCHANGED <<oltpOn, stop, life, tick, todo, conn, orders, rows>>
      /\ \A m \in sent' \cup buffer' : m \in sent \cup buffer
  BY DEF QueueFull, Recreate, PublishRaises, oltp, out
<1>2. pc \in Ticking
  BY DEF QueueFull, Recreate, PublishRaises, Publishing, Ticking
<1>3. CASE QueueFull \/ Recreate
  <2>1. pc' = pc /\ at' = at /\ attempts' = attempts + 1 /\ attempts < PublishAttempts
    BY <1>3 DEF QueueFull, Recreate, Tried
  <2>2. attempts' \in 0..PublishAttempts
    BY <2>1, RunTypes, GeneratorConstants
  <2>3. faults' \in 0..MaxFaults
    BY <1>3, RunTypes DEF QueueFull, Recreate
  <2> QED BY <1>1, <1>2, <2>1, <2>2, <2>3, RunTypes, QuietStep
<1>4. CASE PublishRaises
  <2>1. pc' \in {"flush_ext", "tick"} /\ at' = 1 /\ attempts' = 0
    BY <1>4 DEF PublishRaises, Caught
  <2>2. faults' \in 0..MaxFaults
    <3>1. Fault \/ faults' = faults \/ (faults < MaxFaults /\ faults' = faults + 1)
      BY <1>4 DEF PublishRaises
    <3> QED BY <3>1, RunTypes, GeneratorConstants
  <2> QED BY <1>1, <1>2, <2>1, <2>2, RunTypes, QuietStep DEF Ticking, AtOrder
<1> QED BY <1>3, <1>4

\* The flushes of a tick and of the end.
LEMMA FlushKeeps == ASSUME GenInv, Flush \/ LastFlush PROVE GenInv'
<1>1. UNCHANGED <<oltpOn, stop, life, tick, todo, at, attempts, conn, orders, rows>>
  BY DEF Flush, LastFlush, Goto, local, oltp
<1>2. pc \in Ticking /\ pc' \in Ticking /\ pc' \notin AtOrder \cup {"insert"}
  BY DEF Flush, LastFlush, Goto, Ticking, AtOrder
<1>3. \A m \in sent' \cup buffer' : m \in sent \cup buffer
  BY DEF Flush, LastFlush, Flushed, FlushTimeout, FlushFatal, out
<1>4. faults' \in 0..MaxFaults
  BY RunTypes DEF Flush, LastFlush, Flushed, FlushTimeout, FlushFatal
<1> QED BY <1>1, <1>2, <1>3, <1>4, RunTypes, QuietStep

\* The emitters and the files.
LEMMA EmitKeeps == ASSUME GenInv, Emit \/ SkipEmitter \/ EmittersDone PROVE GenInv'
<1>1. /\ UNCHANGED <<oltpOn, stop, life, tick, todo, conn, orders, rows, faults>>
      /\ pc = "ext" /\ pc' \in {"ext", "flush_ext"}
  BY DEF Emit, SkipEmitter, EmittersDone, NextEmitter, oltp
<1>2. at' \in 1..11
  <2>1. at' = 1 \/ (at <= 10 /\ at' = at + 1)
    BY Orders DEF Emit, SkipEmitter, EmittersDone, NextEmitter
  <2> QED BY <2>1, RunTypes
<1>3. attempts' \in 0..PublishAttempts
  BY RunTypes DEF Emit, SkipEmitter, EmittersDone, Queued, out
<1>4. \A m \in sent' \cup buffer' : m \in sent \cup buffer \/ (m \in Messages /\ Backed(m))
  <2>1. \/ UNCHANGED <<sent, buffer>>
        \/ /\ at <= Len(TickOrder) /\ Emitting(TickOrder[at])
           /\ \A m \in sent' \cup buffer' : m \in sent \cup buffer \/ m = Message(TickOrder[at].name, 0)
    BY DEF Emit, SkipEmitter, EmittersDone, Queued, out
  <2>2. at <= Len(TickOrder) => at \in DOMAIN TickOrder
    BY RunTypes, Orders
  <2> QED BY <2>1, <2>2, EmitterMessage
<1> QED BY <1>1, <1>2, <1>3, <1>4, RunTypes, QuietStep DEF Ticking, AtOrder

LEMMA EmitRaisesKeeps == ASSUME GenInv, EmitRaises PROVE GenInv'
<1>1. /\ UNCHANGED <<oltpOn, stop, life, tick, todo, orders, rows, buffer>>
      /\ pc = "ext" /\ pc' = "flush_ext" /\ at' = 1 /\ attempts' = 0 /\ at <= Len(TickOrder)
  BY DEF EmitRaises, Caught
<1>2. conn' \in {"none", "open", "lost"} /\ (conn' # "none" => conn # "none")
  BY RunTypes DEF EmitRaises
<1>3. faults' \in 0..MaxFaults
  BY RunTypes DEF EmitRaises
<1>4. \A m \in sent' \cup buffer' : m \in sent \cup buffer \/ (m \in Messages /\ Backed(m))
  <2>1. \/ sent' = sent
        \/ Emitting(TickOrder[at]) /\ sent' = sent \cup {Message(TickOrder[at].name, 0)}
    BY DEF EmitRaises
  <2>2. at \in DOMAIN TickOrder
    BY <1>1, RunTypes, Orders
  <2> QED BY <1>1, <2>1, <2>2, EmitterMessage
<1> QED BY <1>1, <1>2, <1>3, <1>4, RunTypes, QuietStep DEF Ticking, AtOrder

LEMMA BatchKeeps == ASSUME GenInv, MinioBatch PROVE GenInv'
<1>1. /\ UNCHANGED <<oltpOn, stop, life, tick, todo, at, attempts, conn, orders, rows, buffer>>
      /\ pc = "batch" /\ pc' = "tick"
  BY DEF MinioBatch, Goto, local, oltp
<1>2. faults' \in 0..MaxFaults
  BY RunTypes DEF MinioBatch
<1>3. \A m \in sent' : m \in sent \/ \E i \in 1..3 : m = Message(Files[i], 0)
  <2>1. Len(Files) = 3
    BY DEF Files
  <2>2. sent' = sent \/ \E n \in 0..3 : sent' = sent \cup {Message(Files[i], 0) : i \in 1..n}
    BY <2>1 DEF MinioBatch
  <2>3. \A n \in 0..3 : 1..n \subseteq 1..3
    OBVIOUS
  <2> QED BY <2>2, <2>3
<1> QED BY <1>1, <1>2, <1>3, FileMessage, RunTypes, QuietStep DEF Ticking, AtOrder

LEMMA EndingKeeps == ASSUME GenInv, Ending PROVE GenInv'
<1>1. /\ UNCHANGED <<oltpOn, stop, life, tick, todo, at, attempts, orders, rows, buffer, sent, faults>>
      /\ pc = "close" /\ pc' = "stopped" /\ conn' = "none"
  BY DEF Ending, Goto, local, out
<1> QED BY <1>1, RunTypes, QuietStep DEF Ticking, AtOrder

-----------------------------------------------------------------------------
(* The start, the signal and the end of a process.                         *)

\* A step that sends nothing and inserts no order.
LEMMA StartStep ==
    ASSUME GenInv, UNCHANGED orders, \A m \in sent' \cup buffer' : m \in sent \cup buffer,
           rows' \in [Tables -> Nat], \A t \in Tables : rows[t] > 0 => rows'[t] > 0,
           oltpOn' \in BOOLEAN, stop' \in BOOLEAN, life' \in 1..MaxLives, conn' \in {"none", "open", "lost"},
           tick' \in 0..MaxTicks, todo' \in 0..PerTick, at' \in 1..11, attempts' \in 0..PublishAttempts,
           faults' \in 0..MaxFaults, pc' \in {"connect", "seed", "seed_ext", "tick", "down"},
           StartUp', SeededOnce'
    PROVE  GenInv'
<1>1. TypeOK /\ AnnouncedIsStored /\ OrdersKept
  BY RunTypes DEF GenInv
<1>2. AnnouncedIsStored' /\ sent' \subseteq Messages /\ buffer' \subseteq Messages
  BY <1>1, StoredKept
<1>3. at' \in 1..Len(TickOrder) + 1
  BY Orders
<1>4. TypeOK'
  BY <1>1, <1>2, <1>3 DEF TypeOK, OrdersKept
<1>5. OrderAtHand'
  BY DEF OrderAtHand, AtOrder
<1> QED BY <1>2, <1>4, <1>5 DEF GenInv

LEMMA Lives == ASSUME GenInv PROVE life \in 1..MaxLives /\ rows \in [Tables -> Nat] /\ \A t \in Tables : rows[t] \in Nat
<1>1. TypeOK
  BY DEF GenInv
<1> QED BY <1>1, GeneratorTypes DEF TypeOK

LEMMA ConnectKeeps == ASSUME GenInv, Connect PROVE GenInv'
<1>1. /\ pc = "connect" /\ UNCHANGED <<oltpOn, stop, life, tick, todo, at, attempts, orders, rows, buffer, sent>>
      /\ \/ pc' = "seed" /\ conn' = (IF oltpOn THEN "open" ELSE "none") /\ UNCHANGED faults
         \/ pc' = "down" /\ Fault /\ UNCHANGED conn
  BY DEF Connect, Goto, local, out
<1>2. StartUp /\ SeededOnce
  BY DEF GenInv
<1>3. StartUp'
  BY <1>1, <1>2 DEF StartUp, Ticking
<1>4. SeededOnce'
  BY <1>1, <1>2 DEF SeededOnce
<1>5. faults' \in 0..MaxFaults /\ conn' \in {"none", "open", "lost"}
  BY <1>1, RunTypes
<1> QED BY <1>1, <1>3, <1>4, <1>5, RunTypes, Lives, StartStep

\* A seed of a reference table: the sellers once for each life.
LEMMA ReferenceSeed ==
    ASSUME GenInv, pc = "seed", at \in 1..3, NEW r, r = SeedRows(Reference[at])
    PROVE  /\ r \in [Tables -> Nat] /\ \A t \in Tables : rows[t] > 0 => r[t] > 0
           /\ \A t \in Tables : r[t] <= IF t = "sellers" THEN life ELSE 1
           /\ (at >= 2 => r["users"] > 0) /\ (at >= 3 => r["products"] > 0)
           /\ r["managers"] <= r["employees"]
<1>1. StartUp /\ SeededOnce
  BY DEF GenInv
<1>2. \A t \in Tables : rows[t] \in Nat /\ rows[t] <= IF t = "sellers" THEN life ELSE 1
  BY <1>1, Lives DEF SeededOnce
<1>3. /\ at > 2 => rows["users"] > 0 
      /\ at = 1 => rows["sellers"] < life
      /\ rows["managers"] <= rows["employees"]
  BY <1>1 DEF StartUp
<1>4. {"sellers", "users", "products", "managers", "employees"} \subseteq Tables /\ life \in Nat
  BY SeedTables, Lives
<1>5. CASE at = 1
  <2>1. r = [rows EXCEPT !["sellers"] = rows["sellers"] + 1]
    BY <1>5, Orders DEF SeedRows
  <2> QED BY <1>2, <1>3, <1>4, <1>5, <2>1, Lives
<1>6. CASE at = 2
  <2>1. r = [rows EXCEPT !["users"] = 1]
    BY <1>6, Orders DEF SeedRows
  <2> QED BY <1>2, <1>3, <1>4, <1>6, <2>1, Lives
<1>7. CASE at = 3
  <2>1. r = [rows EXCEPT !["products"] = 1]
    BY <1>7, Orders DEF SeedRows
  <2> QED BY <1>2, <1>3, <1>4, <1>7, <2>1, Lives
<1> QED BY <1>5, <1>6, <1>7

LEMMA SeedReferenceKeeps == ASSUME GenInv, SeedReference PROVE GenInv'
<1>1. pc = "seed" /\ UNCHANGED <<oltpOn, stop, life, tick, todo, attempts, orders, buffer, sent>>
  BY DEF SeedReference, out
<1>2. StartUp /\ SeededOnce /\ at \in 1..4
  BY <1>1 DEF GenInv, StartUp
<1>3. CASE ~oltpOn /\ pc' = "tick" /\ UNCHANGED <<at, conn, rows, faults>>
  <2>1. StartUp'
    BY <1>1, <1>2, <1>3 DEF StartUp, Ticking
  <2>2. SeededOnce'
    BY <1>1, <1>2, <1>3 DEF SeededOnce
  <2> QED BY <1>1, <1>3, <2>1, <2>2, RunTypes, Lives, StartStep
<1>4. CASE /\ oltpOn /\ at <= Len(Reference) /\ at' = at + 1 /\ rows' = SeedRows(Reference[at])
           /\ UNCHANGED <<pc, conn, faults>>
  <2>1. at \in 1..3 /\ at' \in 2..4 /\ at' \in 1..11
    BY <1>2, <1>4, Orders
  <2>2. /\ rows' \in [Tables -> Nat] /\ \A t \in Tables : rows[t] > 0 => rows'[t] > 0
        /\ \A t \in Tables : rows'[t] <= IF t = "sellers" THEN life ELSE 1
        /\ (at >= 2 => rows'["users"] > 0) /\ (at >= 3 => rows'["products"] > 0)
        /\ rows'["managers"] <= rows'["employees"]
    BY <1>1, <1>4, <2>1, ReferenceSeed
  <2>3. StartUp'
    BY <1>1, <1>2, <1>4, <2>1, <2>2 DEF StartUp, Ticking
  <2>4. SeededOnce'
    BY <1>1, <2>2 DEF SeededOnce
  <2> QED BY <1>1, <1>4, <2>1, <2>2, <2>3, <2>4, RunTypes, Lives, StartStep
<1>5. CASE /\ oltpOn /\ at <= Len(Reference) /\ pc' = "down" /\ at' = 1 /\ conn' = "none" /\ Fault
           /\ rows' \in {rows, SeedRows(Reference[at])}
  <2>1. at \in 1..3
    BY <1>2, <1>5, Orders
  <2>2. /\ rows' \in [Tables -> Nat] /\ \A t \in Tables : rows[t] > 0 => rows'[t] > 0
        /\ \A t \in Tables : rows'[t] <= IF t = "sellers" THEN life ELSE 1
        /\ rows'["managers"] <= rows'["employees"]
    <3>1. CASE rows' = rows
      BY <1>2, <3>1, Lives DEF StartUp, SeededOnce
    <3>2. CASE rows' = SeedRows(Reference[at])
      BY <1>1, <2>1, <3>2, ReferenceSeed
    <3> QED BY <1>5, <3>1, <3>2
  <2>3. StartUp'
    BY <1>5, <2>2 DEF StartUp, Ticking
  <2>4. SeededOnce'
    BY <1>1, <2>2 DEF SeededOnce
  <2> QED BY <1>1, <1>5, <2>2, <2>3, <2>4, RunTypes, Lives, StartStep
<1>6. CASE oltpOn /\ at > Len(Reference) /\ pc' = "seed_ext" /\ at' = 1 /\ UNCHANGED <<conn, rows, faults>>
  <2>1. at = 4
    BY <1>2, <1>6, Orders
  <2>2. StartUp'
    BY <1>1, <1>2, <1>6, <2>1 DEF StartUp, Ticking
  <2>3. SeededOnce'
    BY <1>1, <1>2, <1>6 DEF SeededOnce
  <2> QED BY <1>1, <1>6, <2>2, <2>3, RunTypes, Lives, StartStep
<1> QED BY <1>3, <1>4, <1>5, <1>6 DEF SeedReference

\* A seed of an extension table, into an empty table; that of the managers comes
\* right after that of the employees, or not at all.
LEMMA ExtensionSeed ==
    ASSUME GenInv, pc = "seed_ext", at \in 1..6, NEW r,
           r = IF Seeds(SeedOrder[at]) THEN [rows EXCEPT ![SeedOrder[at].table] = rows[SeedOrder[at].table] + 1] ELSE rows
    PROVE  /\ r \in [Tables -> Nat] /\ \A t \in Tables : rows[t] > 0 => r[t] > 0
           /\ \A t \in Tables : r[t] <= IF t = "sellers" THEN life ELSE 1
           /\ r["users"] = rows["users"] /\ r["products"] = rows["products"]
           /\ r["managers"] <= r["employees"]
           /\ AfterSeed(SeedOrder[at]) \in 1..7
           /\ AfterSeed(SeedOrder[at]) = 5 => r["managers"] = 0 /\ r["employees"] = 1
<1> DEFINE s == SeedOrder[at]
           n == AfterSeed(SeedOrder[at])
<1>1. StartUp /\ SeededOnce
  BY DEF GenInv
<1>2. \A t \in Tables : rows[t] \in Nat /\ rows[t] <= IF t = "sellers" THEN life ELSE 1
  BY <1>1, Lives DEF SeededOnce
<1>3. /\ at = 5 => rows["managers"] = 0 /\ rows["employees"] = 1
      /\ rows["managers"] <= rows["employees"]
  BY <1>1 DEF StartUp
<1>4. /\ s.table \in Tables \ {"sellers", "users", "products"}
      /\ at # 5 => s.after = "none" /\ s.table # "managers"
      /\ at # 4 => s.table # "employees"
      /\ at = 5 => s.after = "employees" /\ s.table = "managers"
      /\ at = 4 => s.table = "employees"
  BY SeedTables
<1>5. {"sellers", "users", "products", "managers", "employees"} \subseteq Tables /\ life \in Nat
  BY SeedTables, Lives
<1>6. /\ r \in [Tables -> Nat]
      /\ \A t \in Tables : r[t] = IF t = s.table /\ Seeds(s) THEN rows[t] + 1 ELSE rows[t]
  BY <1>2, <1>4, Lives
<1>7. Seeds(s) <=> at = 5 \/ rows[s.table] = 0
  BY <1>4 DEF Seeds
<1>8. Seeds(s) => rows[s.table] = 0
  BY <1>3, <1>4, <1>7
<1>9. \A t \in Tables : /\ rows[t] > 0 => r[t] > 0
                        /\ r[t] <= IF t = "sellers" THEN life ELSE 1
  BY <1>2, <1>4, <1>6, <1>8
<1>10. r["managers"] <= r["employees"]
  <2>1. CASE at = 5
    BY <1>2, <1>3, <1>4, <1>5, <1>6, <2>1
  <2>2. CASE at # 5
    BY <1>2, <1>3, <1>4, <1>5, <1>6, <2>2
  <2> QED BY <2>1, <2>2
<1>11. n \in 1..7 /\ (n = 5 => at = 4 /\ Seeds(s))
  <2>1. n = IF Seeds(s) \/ at = 6 \/ SeedOrder[at + 1].after # s.table THEN at + 1 ELSE at + 2
    BY Orders DEF AfterSeed
  <2>2. at # 6 => at + 1 \in 1..6
    OBVIOUS
  <2>3. /\ at = 3 => SeedOrder[at + 1].after # s.table
        /\ at = 4 => SeedOrder[at + 1].after = s.table
    BY <1>4, SeedTables
  <2> HIDE DEF n, s
  <2>4. n \in 1..7
    <3>1. at = 6 => n = 7
      BY <2>1
    <3>2. at # 6 => at + 1 \in 1..7 /\ at + 2 \in 1..7
      OBVIOUS
    <3> QED BY <2>1, <3>1, <3>2
  <2>5. n = 5 => at = 4 /\ Seeds(s)
    BY <2>1, <2>3
  <2> QED BY <2>4, <2>5
<1>12. n = 5 => r["managers"] = 0 /\ r["employees"] = 1
  <2> HIDE DEF n, s
  <2>1. n = 5 => s.table = "employees" /\ Seeds(s) /\ rows["employees"] = 0
    BY <1>4, <1>8, <1>11
  <2>2. n = 5 => rows["managers"] = 0
    BY <1>2, <1>3, <1>5, <2>1
  <2> QED BY <1>2, <1>5, <1>6, <2>1, <2>2
<1>13. r["users"] = rows["users"] /\ r["products"] = rows["products"]
  BY <1>4, <1>5, <1>6
<1> HIDE DEF s, n
<1> QED BY <1>6, <1>9, <1>10, <1>11, <1>12, <1>13 DEF n

LEMMA SeedTableKeeps == ASSUME GenInv, SeedTable PROVE GenInv'
<1> DEFINE r == IF Seeds(SeedOrder[at]) THEN [rows EXCEPT ![SeedOrder[at].table] = rows[SeedOrder[at].table] + 1] ELSE rows
<1>1. /\ pc = "seed_ext" /\ at <= Len(SeedOrder) /\ conn = "open"
      /\ UNCHANGED <<oltpOn, stop, life, tick, todo, attempts, orders, buffer, sent>>
      /\ \/ at' = AfterSeed(SeedOrder[at]) /\ rows' = r /\ UNCHANGED <<pc, conn, faults>>
         \/ at' = 1 /\ rows' \in {rows, r} /\ pc' = "tick" /\ conn' \in {"open", "lost"} /\ Fault
  BY DEF SeedTable, out
<1>2. StartUp /\ SeededOnce /\ at \in 1..7
  BY <1>1 DEF GenInv, StartUp
<1>3. at \in 1..6
  BY <1>1, <1>2, Orders
<1>4. /\ r \in [Tables -> Nat] /\ \A t \in Tables : rows[t] > 0 => r[t] > 0
      /\ \A t \in Tables : r[t] <= IF t = "sellers" THEN life ELSE 1
      /\ r["users"] = rows["users"] /\ r["products"] = rows["products"] /\ r["managers"] <= r["employees"]
      /\ AfterSeed(SeedOrder[at]) \in 1..7
      /\ AfterSeed(SeedOrder[at]) = 5 => r["managers"] = 0 /\ r["employees"] = 1
  BY <1>1, <1>3, ExtensionSeed
<1> HIDE DEF r
<1>5. CASE at' = AfterSeed(SeedOrder[at]) /\ rows' = r /\ UNCHANGED <<pc, conn, faults>>
  <2>1. StartUp'
    BY <1>1, <1>2, <1>4, <1>5 DEF StartUp, Ticking
  <2>2. SeededOnce'
    BY <1>1, <1>4, <1>5 DEF SeededOnce
  <2>3. at' \in 1..11
    BY <1>4, <1>5
  <2> QED BY <1>1, <1>4, <1>5, <2>1, <2>2, <2>3, RunTypes, Lives, StartStep
<1>6. CASE at' = 1 /\ rows' \in {rows, r} /\ pc' = "tick" /\ conn' \in {"open", "lost"} /\ Fault
  <2>1. /\ rows' \in [Tables -> Nat] /\ \A t \in Tables : rows[t] > 0 => rows'[t] > 0
        /\ \A t \in Tables : rows'[t] <= IF t = "sellers" THEN life ELSE 1
        /\ rows'["users"] = rows["users"] /\ rows'["products"] = rows["products"]
        /\ rows'["managers"] <= rows'["employees"]
    <3>1. CASE rows' = rows
      BY <1>2, <3>1, Lives DEF StartUp, SeededOnce
    <3>2. CASE rows' = r
      BY <1>4, <3>2
    <3> QED BY <1>6, <3>1, <3>2
  <2>2. StartUp'
    BY <1>1, <1>2, <1>6, <2>1 DEF StartUp, Ticking
  <2>3. SeededOnce'
    BY <1>1, <2>1 DEF SeededOnce
  <2> QED BY <1>1, <1>6, <2>1, <2>2, <2>3, RunTypes, Lives, StartStep
<1> QED BY <1>1, <1>5, <1>6

LEMMA SeedDoneKeeps == ASSUME GenInv, SeedDone PROVE GenInv'
<1>1. /\ pc = "seed_ext" /\ pc' = "tick" /\ at' = 1
      /\ UNCHANGED <<oltpOn, stop, life, tick, todo, attempts, conn, orders, rows, buffer, sent, faults>>
  BY DEF SeedDone, oltp, out
<1>2. StartUp /\ SeededOnce
  BY DEF GenInv
<1>3. StartUp'
  BY <1>1, <1>2 DEF StartUp, Ticking
<1>4. SeededOnce'
  BY <1>1, <1>2 DEF SeededOnce
<1> QED BY <1>1, <1>3, <1>4, RunTypes, Lives, StartStep

\* The signal only sets _stop.
LEMMA StopKeeps == ASSUME GenInv, Stop PROVE GenInv'
<1>1. stop' = TRUE /\ UNCHANGED <<oltpOn, pc, life, tick, todo, at, attempts, conn, orders, rows, buffer, sent, faults>>
  BY DEF Stop, local, oltp, out
<1>2. TypeOK'
  BY <1>1 DEF GenInv, TypeOK
<1> QED BY <1>1, <1>2 DEF GenInv, StartUp, OrderAtHand, AnnouncedIsStored, SeededOnce

\* A kill anywhere, and the next process with the settings of that moment.
LEMMA KillKeeps == ASSUME GenInv, Kill PROVE GenInv'
<1>1. /\ pc' = "down" /\ conn' = "none" /\ Fault
      /\ UNCHANGED <<oltpOn, stop, life, tick, todo, at, attempts, orders, rows>>
      /\ \A m \in sent' \cup buffer' : m \in sent \cup buffer
  BY DEF Kill, local
<1>2. StartUp /\ SeededOnce
  BY DEF GenInv
<1>3. StartUp'
  BY <1>1, <1>2 DEF StartUp, Ticking
<1>4. SeededOnce'
  BY <1>1, <1>2 DEF SeededOnce
<1> QED BY <1>1, <1>3, <1>4, RunTypes, Lives, StartStep

LEMMA RestartKeeps == ASSUME GenInv, Restart PROVE GenInv'
<1>1. /\ pc = "down" /\ pc' = "connect" /\ life < MaxLives /\ life' = life + 1 /\ LoadConfig
      /\ tick' = 0 /\ todo' = 0 /\ at' = 1 /\ attempts' = 0
      /\ UNCHANGED <<stop, conn, orders, rows, buffer, sent, faults>>
  BY DEF Restart, oltp, out
<1>2. StartUp /\ SeededOnce
  BY DEF GenInv
<1>3. oltpOn' \in BOOLEAN
  BY <1>1 DEF LoadConfig, PickBool
<1>4. life' \in 1..MaxLives /\ life < life' /\ life \in Nat
  BY <1>1, Lives, GeneratorConstants
<1>5. \A t \in Tables : rows'[t] <= IF t = "sellers" THEN life' ELSE 1
  BY <1>1, <1>2, <1>4, Lives DEF SeededOnce
<1>6. rows["sellers"] < life'
  <2>1. "sellers" \in Tables
    BY SeedTables
  <2> QED BY <1>2, <1>4, <2>1, Lives DEF SeededOnce
<1>7. StartUp'
  BY <1>1, <1>2, <1>6 DEF StartUp, Ticking
<1>8. SeededOnce'
  BY <1>5 DEF SeededOnce
<1>9. 0 \in 0..MaxTicks /\ 0 \in 0..PerTick
  BY GeneratorConstants
<1> QED BY <1>1, <1>3, <1>4, <1>7, <1>8, <1>9, RunTypes, Lives, StartStep

LEMMA InitGenerator == ASSUME Init PROVE GenInv
<1>1. TypeOK
  <2>1. oltpOn \in BOOLEAN
    BY DEF Init, PickBool
  <2>2. at \in 1..Len(TickOrder) + 1
    BY Orders DEF Init
  <2>3. orders \in Seq({"bare", "complete"}) /\ Len(orders) <= MaxOrders
    BY GeneratorConstants DEF Init
  <2>4. rows \in [Tables -> Nat]
    BY DEF Init
  <2>5. life \in 1..MaxLives /\ tick \in 0..MaxTicks /\ todo \in 0..PerTick /\ attempts \in 0..PublishAttempts
        /\ faults \in 0..MaxFaults
    BY GeneratorConstants DEF Init
  <2> QED BY <2>1, <2>2, <2>3, <2>4, <2>5 DEF Init, TypeOK
<1>2. \A t \in Tables : rows[t] = 0
  BY DEF Init
<1>3. StartUp
  BY <1>2, SeedTables DEF Init, StartUp, Ticking
<1>4. OrderAtHand /\ AnnouncedIsStored
  BY DEF Init, OrderAtHand, AtOrder, AnnouncedIsStored
<1>5. SeededOnce
  BY <1>2 DEF Init, SeededOnce
<1> QED BY <1>1, <1>3, <1>4, <1>5 DEF GenInv

LEMMA StepGenerator == GenInv /\ [Next]_vars => GenInv'
<1> SUFFICES ASSUME GenInv, [Next]_vars PROVE GenInv'
  OBVIOUS
<1>1. CASE Starting
  BY <1>1, ConnectKeeps, SeedReferenceKeeps, SeedTableKeeps, SeedDoneKeeps DEF Starting
<1>2. CASE Ordering
  BY <1>2, StartTickKeeps, ClicksKeeps, InsertOrderKeeps, InsertItemsKeeps, OrderEvents, RedisKeeps DEF Ordering
<1>3. CASE QueueFull \/ Recreate \/ PublishRaises \/ Flush \/ LastFlush \/ Ending
  BY <1>3, PublisherKeeps, FlushKeeps, EndingKeeps
<1>4. CASE Emission
  BY <1>4, EmitKeeps, EmitRaisesKeeps, BatchKeeps DEF Emission
<1>5. CASE Stop \/ Kill \/ Restart
  BY <1>5, StopKeeps, KillKeeps, RestartKeeps
<1>6. CASE UNCHANGED vars
  BY <1>6 DEF vars, local, oltp, out, GenInv, TypeOK, StartUp, OrderAtHand, AnnouncedIsStored, SeededOnce
<1> QED BY <1>1, <1>2, <1>3, <1>4, <1>5, <1>6 DEF Next, Process

-----------------------------------------------------------------------------
(* A run without failures.                                                 *)

\* What has been told stays told.
LEMMA ToldKept ==
    ASSUME OrdersKept, sent \cup buffer \subseteq sent' \cup buffer', NEW o \in DOMAIN orders, Told(o)
    PROVE  Told(o)'
BY DEF OrdersKept, Told

\* A step between two orders.
LEMMA BetweenOrders ==
    ASSUME GenInv, CleanRun, faults = 0, UNCHANGED <<oltpOn, orders>>, sent \cup buffer \subseteq sent' \cup buffer',
           pc' # "down", conn' # "lost", pc \notin AtOrder, pc' \notin AtOrder,
           pc' \in {"close", "stopped"} => buffer' = {}
    PROVE  CleanRun'
<1>1. \A o \in DOMAIN orders : Told(o)'
  BY RunTypes, ToldKept DEF CleanRun
<1> QED BY <1>1 DEF CleanRun, AtOrder

\* A step at an order of the OLTP database: the others stay told, and so does what
\* the one at hand has announced.
LEMMA AtAnOrder ==
    ASSUME GenInv, CleanRun, faults = 0, oltpOn, UNCHANGED <<oltpOn, conn>>, OrdersKept, Len(orders') = Len(orders),
           sent \cup buffer \subseteq sent' \cup buffer', pc \in AtOrder, pc' \in AtOrder,
           pc' \in {"notify", "pay", "notify_pay", "ship"} => Message("order", Len(orders)) \in sent' \cup buffer',
           pc' \in {"notify_pay", "ship"} => Message("payment", Len(orders)) \in sent' \cup buffer'
    PROVE  CleanRun'
<1>1. DOMAIN orders' = DOMAIN orders
  BY GeneratorTypes DEF OrdersKept, GenInv
<1>2. \A o \in DOMAIN orders : Told(o)' \/ o = Len(orders)
  BY ToldKept DEF CleanRun
<1> QED BY <1>1, <1>2 DEF CleanRun, AtOrder

\* Without the OLTP database there are no orders to keep.
LEMMA NoOrders ==
    ASSUME CleanRun, faults = 0, ~oltpOn, UNCHANGED <<oltpOn, conn, orders>>, pc' \notin {"down", "close", "stopped"}
    PROVE  CleanRun'
BY DEF CleanRun

LEMMA NoFault == ASSUME GenInv, faults' = 0 PROVE ~Fault
BY RunTypes

LEMMA InsertClean == ASSUME GenInv, CleanRun, faults = 0, faults' = 0, InsertOrder \/ InsertItems PROVE CleanRun'
<1>1. /\ TypeOK /\ UNCHANGED <<oltpOn, sent, buffer, conn>>
      /\ conn # "none" => oltpOn
      /\ conn # "lost"
  BY NoFault DEF InsertOrder, InsertItems, Goto, out, GenInv, StartUp, CleanRun
<1>2. CASE InsertOrder /\ ~oltpOn
  <2>1. pc' = "announce" /\ orders' = orders
    BY <1>1, <1>2, NoFault DEF InsertOrder, Goto
  <2> QED BY <1>1, <1>2, <2>1, NoOrders
<1>3. CASE InsertOrder /\ oltpOn
  <2>1. pc = "insert" /\ pc' = "items" /\ orders' = Inserted
    BY <1>1, <1>3, NoFault DEF InsertOrder, Goto
  <2>2. /\ Inserted \in Seq({"bare", "complete"}) /\ Len(Inserted) = Len(orders) + 1
        /\ DOMAIN orders = 1..Len(orders) /\ DOMAIN Inserted = 1..(Len(orders) + 1)
        /\ \A o \in DOMAIN orders : Inserted[o] = orders[o]
    BY <1>1, GeneratorTypes DEF Inserted
  <2>3. \A o \in DOMAIN orders : Told(o)
    BY <2>1 DEF CleanRun, AtOrder
  <2>4. \A o \in DOMAIN orders : Told(o)'
    BY <1>1, <2>1, <2>2, <2>3 DEF Told
  <2>5. \A o \in DOMAIN orders' : o \in DOMAIN orders \/ o = Len(orders')
    BY <1>1, <2>1, <2>2, GeneratorTypes
  <2> QED BY <1>1, <1>3, <2>1, <2>4, <2>5 DEF CleanRun, AtOrder
<1>4. CASE InsertItems
  <2>1. pc = "items" /\ pc' = "announce" /\ orders' = Completed
    BY <1>4, NoFault DEF InsertItems, Goto
  <2>2. conn = "open" /\ oltpOn /\ Len(orders) > 0
    BY <1>1, <2>1 DEF GenInv, OrderAtHand
  <2>3. /\ Completed \in Seq({"bare", "complete"}) /\ Len(Completed) = Len(orders)
        /\ \A o \in DOMAIN orders : Completed[o] = orders[o] \/ Completed[o] = "complete"
    BY <1>1, <2>2, GeneratorTypes DEF Completed
  <2>4. OrdersKept
    BY <1>1, <2>1, <2>3, GeneratorTypes DEF OrdersKept, TypeOK
  <2> QED BY <1>1, <2>1, <2>2, <2>3, <2>4, AtAnOrder DEF AtOrder
<1> QED BY <1>1, <1>2, <1>3, <1>4

LEMMA EventsClean ==
    ASSUME GenInv, CleanRun, faults = 0, faults' = 0, Announce \/ Notify \/ Pay \/ NotifyPayment \/ Ship \/ NoShip
    PROVE  CleanRun'
<1>1. /\ TypeOK /\ UNCHANGED <<oltpOn, conn, orders>> /\ sent \cup buffer \subseteq sent' \cup buffer'
      /\ OrdersKept
  <2>1. UNCHANGED <<oltpOn, conn, orders>> /\ sent \cup buffer \subseteq sent' \cup buffer'
    BY DEF Announce, Notify, Pay, NotifyPayment, Ship, NoShip, PublishOrder, Queued, Redis, Goto, NextOrder, oltp, out
  <2> QED BY <2>1, RunTypes DEF GenInv
<1>2. CASE ~oltpOn
  <2>1. pc' \in AtOrder \cup {"insert"}
    BY NoFault DEF Announce, Notify, Pay, NotifyPayment, Ship, NoShip, PublishOrder, Redis, Goto, NextOrder, AtOrder
  <2> QED BY <1>1, <1>2, <2>1, NoOrders DEF AtOrder
<1>3. CASE oltpOn
  <2>1. OrderId = Len(orders)
    BY <1>3 DEF OrderId
  <2>2. CASE Announce
    <3>1. pc = "announce" /\ pc' = "notify" /\ Message("order", Len(orders)) \in buffer'
      BY <2>1, <2>2 DEF Announce, PublishOrder, Queued
    <3> QED BY <1>1, <1>3, <3>1, AtAnOrder DEF AtOrder
  <2>3. CASE Notify
    <3>1. pc = "notify" /\ pc' = "pay"
      BY <2>3, NoFault DEF Notify, Redis, Goto
    <3>2. Message("order", Len(orders)) \in sent' \cup buffer'
      BY <1>1, <1>3, <3>1 DEF CleanRun
    <3> QED BY <1>1, <1>3, <3>1, <3>2, AtAnOrder DEF AtOrder
  <2>4. CASE Pay
    <3>1. pc = "pay" /\ pc' = "notify_pay" /\ Message("payment", Len(orders)) \in buffer'
      BY <2>1, <2>4 DEF Pay, PublishOrder, Queued
    <3>2. Message("order", Len(orders)) \in sent' \cup buffer'
      BY <1>1, <1>3, <3>1 DEF CleanRun
    <3> QED BY <1>1, <1>3, <3>1, <3>2, AtAnOrder DEF AtOrder
  <2>5. CASE NotifyPayment
    <3>1. pc = "notify_pay" /\ pc' = "ship"
      BY <2>5, NoFault DEF NotifyPayment, Redis, Goto
    <3>2. {Message("order", Len(orders)), Message("payment", Len(orders))} \subseteq sent' \cup buffer'
      BY <1>1, <1>3, <3>1 DEF CleanRun
    <3> QED BY <1>1, <1>3, <3>1, <3>2, AtAnOrder DEF AtOrder
  <2>6. CASE Ship \/ NoShip
    <3>1. pc = "ship" /\ pc' = "insert"
      BY <2>6 DEF Ship, NoShip, NextOrder
    <3>2. orders[Len(orders)] = "complete"
      BY <1>3, <3>1 DEF GenInv, OrderAtHand, AtOrder
    <3>3. {Message("order", Len(orders)), Message("payment", Len(orders))} \subseteq sent \cup buffer
      BY <1>3, <3>1 DEF CleanRun
    <3>4. \A o \in DOMAIN orders : Told(o)
      BY <3>2, <3>3 DEF CleanRun, Told
    <3>5. \A o \in DOMAIN orders : Told(o)'
      BY <1>1, <3>4, ToldKept
    <3> QED BY <1>1, <1>3, <3>1, <3>5 DEF CleanRun, AtOrder
  <2> QED BY <2>2, <2>3, <2>4, <2>5, <2>6
<1> QED BY <1>2, <1>3

\* The steps between the orders: only the last flush has to leave nothing behind.
LEMMA BetweenClean ==
    ASSUME GenInv, CleanRun, faults = 0, faults' = 0,
           Starting \/ StartTick \/ Clicks \/ OrdersDone \/ Flush \/ Emission \/ LastFlush \/ Ending
    PROVE  CleanRun'
<1>1. conn # "lost" /\ (pc \in {"close", "stopped"} => buffer = {})
  BY DEF CleanRun
<1>2. CASE Starting
  <2>1. /\ UNCHANGED <<oltpOn, orders, sent, buffer>> /\ pc' \in {"seed", "seed_ext", "tick"}
        /\ pc \in {"connect", "seed", "seed_ext"} /\ conn' # "lost"
    BY <1>1, <1>2, NoFault DEF Starting, Connect, SeedReference, SeedTable, SeedDone, Goto, oltp, out
  <2> QED BY <2>1, BetweenOrders DEF AtOrder
<1>3. CASE StartTick \/ Clicks \/ OrdersDone
  <2>1. /\ UNCHANGED <<oltpOn, conn, orders, sent, buffer>> /\ pc' \in {"clicks", "insert", "flush"}
        /\ pc \in {"tick", "clicks", "insert"}
    BY <1>3, NoFault DEF StartTick, Clicks, OrdersDone, Goto, oltp, out
  <2> QED BY <1>1, <2>1, BetweenOrders DEF AtOrder
<1>4. CASE Flush \/ LastFlush
  <2>1. /\ UNCHANGED <<oltpOn, conn, orders>> /\ pc' \in {"ext", "batch", "stopping", "close"}
        /\ pc \in {"flush", "flush_ext", "tick", "stopping"} /\ sent \cup buffer \subseteq sent' \cup buffer'
        /\ pc' = "close" => buffer' = {}
    BY <1>4, NoFault DEF Flush, LastFlush, Flushed, FlushTimeout, FlushFatal, Goto, oltp, out
  <2> QED BY <1>1, <2>1, BetweenOrders DEF AtOrder
<1>5. CASE Emission
  <2>1. /\ UNCHANGED <<oltpOn, orders>> /\ pc' \in {"ext", "flush_ext", "tick"}
        /\ pc \in {"ext", "batch"} /\ sent \cup buffer \subseteq sent' \cup buffer' /\ conn' # "lost"
    BY <1>1, <1>5, NoFault DEF Emission, Emit, SkipEmitter, EmitRaises, EmittersDone, MinioBatch, NextEmitter, Queued,
                          Caught, Goto, oltp, out
  <2> QED BY <2>1, BetweenOrders DEF AtOrder
<1>6. CASE Ending
  <2>1. UNCHANGED <<oltpOn, orders, sent, buffer>> /\ pc = "close" /\ pc' = "stopped" /\ conn' = "none"
    BY <1>6 DEF Ending, Goto, out
  <2> QED BY <1>1, <2>1, BetweenOrders DEF AtOrder
<1> QED BY <1>2, <1>3, <1>4, <1>5, <1>6

LEMMA StepClean == ASSUME MaxFaults > 0, GenInv, CleanRun, [Next]_vars PROVE CleanRun'
<1> SUFFICES ASSUME faults' = 0 PROVE CleanRun'
  BY DEF CleanRun
<1>1. faults = 0
  <2>1. faults' = faults \/ Fault \/ PublishRaises
    BY DEF Next, Process, Starting, Connect, SeedReference, SeedTable, SeedDone, Ordering, StartTick, Clicks, InsertOrder,
           InsertItems, Announce, Notify, Pay, NotifyPayment, PublishOrder, Redis, Ship, NoShip, NextOrder, OrdersDone,
           QueueFull, Recreate, Flush, Flushed, FlushTimeout, FlushFatal, Emission, Emit, SkipEmitter, EmitRaises,
           EmittersDone, MinioBatch, LastFlush, Ending, Stop, Kill, Restart, vars
  <2>2. PublishRaises => faults' >= faults
    BY RunTypes, GeneratorConstants DEF PublishRaises, Fault
  <2> QED BY <2>1, <2>2, NoFault, RunTypes
<1>2. CASE Starting \/ StartTick \/ Clicks \/ OrdersDone \/ Flush \/ Emission \/ LastFlush \/ Ending
  BY <1>1, <1>2, BetweenClean
<1>3. CASE InsertOrder \/ InsertItems
  BY <1>1, <1>3, InsertClean
<1>4. CASE Announce \/ Notify \/ Pay \/ NotifyPayment \/ Ship \/ NoShip
  BY <1>1, <1>4, EventsClean
<1>5. CASE QueueFull \/ Stop \/ UNCHANGED vars
  <2>1. UNCHANGED <<oltpOn, pc, conn, orders, buffer, sent>>
    BY <1>5 DEF QueueFull, Stop, vars, oltp, out
  <2> QED BY <1>1, <2>1 DEF CleanRun, Told
<1>6. CASE Recreate \/ Kill
  BY <1>6, NoFault DEF Recreate, Kill
<1>7. CASE PublishRaises
  <2>1. faults' # 0
    BY <1>1, <1>7, NoFault DEF PublishRaises
  <2> QED BY <2>1
<1>8. CASE Restart
  BY <1>1, <1>8 DEF Restart, CleanRun
<1> QED BY <1>2, <1>3, <1>4, <1>5, <1>6, <1>7, <1>8 DEF Next, Process, Ordering

-----------------------------------------------------------------------------
(* The theorems of the specification.                                      *)

\* In every reachable state the types hold, the seeds are where the start-up is,
\* and the order at hand is stored as far as it is announced.
THEOREM Inductive == Spec => []GenInv
<1>1. Init => GenInv
  BY InitGenerator
<1> QED BY <1>1, StepGenerator, PTL DEF Spec

\* The variables of the generator have their types; the attempts of a publish
\* stay within their budget.
THEOREM TypeCorrect == Spec => []TypeOK
<1>1. GenInv => TypeOK
  BY DEF GenInv
<1> QED BY <1>1, Inductive, PTL

\* StreamingGenerator and SyntheticExtensions: whatever call fails and wherever
\* the process is killed, what is in Kafka or MinIO has its rows in the OLTP
\* database, and no table gets its seed twice in all the lives of the process.
THEOREM NothingAnnouncedUnstored == Spec => []OltpIsSound
<1>1. GenInv => OltpIsSound
  BY DEF GenInv, OltpIsSound
<1> QED BY <1>1, Inductive, PTL

\* StreamingGenerator.stop "finishes the current tick": in a run without a failed
\* call, wherever the signal arrives, every order that was inserted has its
\* items, its order event and its payment event in Kafka in the end.  MaxFaults
\* bounds what is counted; when it is 0 an exhausted publish would not count.
THEOREM StopIsClean == ASSUME MaxFaults > 0 PROVE Spec => []CleanStop
<1>1. Init => CleanRun
  BY DEF Init, CleanRun, Told
<1>2. GenInv /\ CleanRun /\ [Next]_vars => CleanRun'
  BY StepClean
<1>3. CleanRun => CleanStop
  BY DEF CleanRun, CleanStop, Told, AtOrder
<1> QED BY <1>1, <1>2, <1>3, Inductive, PTL DEF Spec

=============================================================================
