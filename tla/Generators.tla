----------------------------- MODULE Generators -----------------------------
(***************************************************************************)
(* The data generator: StreamingGenerator.run                              *)
(* (generators/application/streaming_generator.py) with its connectors     *)
(* (generators/infrastructure/connectors) and the synthetic extensions     *)
(* (generators/application/extensions).                                    *)
(*                                                                         *)
(* One process writes orders to the OLTP database in autocommit, announces *)
(* them in Kafka and Redis, and uploads files to MinIO.  Only the start-up *)
(* connects; an exception ends the tick, not the loop.  The process may    *)
(* exit or be killed, and the container is started again.                  *)
(***************************************************************************)
EXTENDS Integers, Sequences, GeneratorSettings

CONSTANTS
    Every,            \* Every[e]: period in ticks of an emitter, from the XML files
    MinioBatchTicks,  \* minio_batch_ticks
    PublishAttempts,  \* attempts of KafkaPublisher.publish
    PerTick,          \* bound: orders_per_tick_max
    MaxOrders,        \* bound: orders of a behaviour
    MaxTicks,         \* bound: ticks of a process
    MaxLives,         \* bound: processes of a behaviour
    MaxFaults         \* bound: failed calls and kills of a behaviour

Emitters == {"email", "time_tracking", "organic", "feature_eval", "web_perf", "error_logs",
             "performance", "seo_rankings", "hr_performance", "web_vitals"}

ASSUME GeneratorAssumption ==
    /\ Every \in [Emitters -> Nat \ {0}]
    /\ MinioBatchTicks \in Nat \ {0}
    /\ {PublishAttempts, MaxLives} \subseteq Nat \ {0}
    /\ {PerTick, MaxOrders, MaxTicks, MaxFaults} \subseteq Nat

VARIABLES
    oltpOn,    \* cfg.enable_oltp
    pc,        \* where the process is
    stop,      \* _stop
    life,      \* number of the process
    tick,      \* _tick_no
    todo,      \* orders left in the tick
    at,        \* next extension table or emitter
    attempts,  \* attempts of the publish call
    conn,      \* the OLTP connection: "none", "open" or "lost"
    orders,    \* rows of orders: "bare", or "complete" with their order_items
    rows,      \* rows[t]: how often the seed of a table was inserted
    buffer,    \* messages in the producer
    sent,      \* messages in Kafka and files in MinIO
    faults     \* faults so far

local == <<tick, todo, at, attempts>>
oltp  == <<conn, orders, rows>>
out   == <<buffer, sent>>
vars  == <<oltpOn, pc, stop, life, local, oltp, out, faults>>

-----------------------------------------------------------------------------
(* The seeds of SyntheticExtensions.seed_oltp, in its order.  A seed is    *)
(* inserted when its table is empty, or right after another one.           *)

Seed(table, after) == [table |-> table, after |-> after]

SeedCampaigns    == Seed("marketing_campaigns", "none")
SeedSeoKeywords  == Seed("seo_keywords", "none")
SeedFeatureFlags == Seed("feature_flags", "none")
SeedEmployees    == Seed("employees", "none")
SeedManagers     == Seed("managers", "employees")
SeedGl           == Seed("general_ledger", "none")

SeedOrder == <<SeedCampaigns, SeedSeoKeywords, SeedFeatureFlags, SeedEmployees, SeedManagers, SeedGl>>

\* The reference tables of seed_reference, in its order.
Reference == <<"sellers", "users", "products">>
Extended  == {SeedOrder[i].table : i \in DOMAIN SeedOrder}
Tables    == Extended \cup {Reference[i] : i \in DOMAIN Reference}

\* An emitter: its name, the system it writes to, the table whose ids it needs
\* ("none" when it needs none) and whether it is only called with an OLTP writer.
Emitter(name, sink, table) == [name |-> name, sink |-> sink, table |-> table]

EmailStreams    == Emitter("email", "kafka", "marketing_campaigns")
TimeTracking    == Emitter("time_tracking", "kafka", "employees")
OrganicSessions == Emitter("organic", "kafka", "none")
FeatureEval     == Emitter("feature_eval", "kafka", "none")
WebPerf         == Emitter("web_perf", "minio", "none")
ErrorLogs       == Emitter("error_logs", "minio", "none")
Performance     == Emitter("performance", "minio", "marketing_campaigns")
SeoRankings     == Emitter("seo_rankings", "minio", "seo_keywords")
HrPerformance   == Emitter("hr_performance", "minio", "employees")
WebVitals       == Emitter("web_vitals", "redis", "none")

\* The calls of on_tick_extensions, in its order.
TickOrder == <<EmailStreams, TimeTracking, OrganicSessions, FeatureEval, WebPerf, ErrorLogs,
               Performance, SeoRankings, HrPerformance, WebVitals>>

\* What leaves the process.  An order id is 0 when there is no OLTP database.
Message(kind, order) == [kind |-> kind, order |-> order]
Kinds    == {"order", "payment", "shipment", "payments_file", "returns_file", "catalog_file"} \cup Emitters
Messages == [kind : Kinds, order : 0..MaxOrders]

TypeOK ==
    /\ oltpOn \in BOOLEAN /\ stop \in BOOLEAN
    /\ pc \in {"connect", "seed", "seed_ext", "tick", "clicks", "insert", "items", "announce", "notify",
               "pay", "notify_pay", "ship", "flush", "ext", "flush_ext", "batch", "stopping", "close",
               "stopped", "down"}
    /\ life \in 1..MaxLives /\ tick \in 0..MaxTicks /\ todo \in 0..PerTick
    /\ at \in 1..Len(TickOrder) + 1 /\ attempts \in 0..PublishAttempts
    /\ conn \in {"none", "open", "lost"}
    /\ orders \in Seq({"bare", "complete"}) /\ Len(orders) <= MaxOrders
    /\ rows \in [Tables -> Nat]
    /\ buffer \subseteq Messages /\ sent \subseteq Messages
    /\ faults \in 0..MaxFaults

-----------------------------------------------------------------------------
Fault == faults < MaxFaults /\ faults' = faults + 1

\* load_config: every key by the precedence of GeneratorSettings.
LoadConfig == oltpOn' \in {PickBool(s) : s \in Sources}

\* An exception in the tick ends the tick; one in the extensions is caught
\* before it, and the second flush follows.
Caught == /\ pc' = IF pc = "ext" THEN "flush_ext" ELSE "tick"
          /\ at' = 1 /\ attempts' = 0

Goto(next) == pc' = next /\ UNCHANGED <<oltpOn, stop, life, local>>

Init ==
    /\ oltpOn \in {PickBool(s) : s \in Sources}
    /\ pc = "connect" /\ stop = FALSE /\ life = 1
    /\ tick = 0 /\ todo = 0 /\ at = 1 /\ attempts = 0
    /\ conn = "none" /\ orders = <<>> /\ rows = [t \in Tables |-> 0]
    /\ buffer = {} /\ sent = {} /\ faults = 0

-----------------------------------------------------------------------------
(* Start-up.  Each connect retries on its own and its last failure leaves  *)
(* the process; so does a failure of the reference seed.                   *)

Connect ==
    /\ pc = "connect"
    /\ \/ Goto("seed") /\ conn' = (IF oltpOn THEN "open" ELSE "none") /\ UNCHANGED faults
       \/ Goto("down") /\ Fault /\ UNCHANGED conn
    /\ UNCHANGED <<orders, rows, out>>

\* Sellers are inserted, users and products are upserted by email and sku.
SeedRows(t) == [rows EXCEPT ![t] = IF t = "sellers" THEN @ + 1 ELSE 1]

\* A table of seed_reference; without an OLTP writer the data stays in memory.
SeedReference ==
    /\ pc = "seed"
    /\ \/ ~oltpOn /\ pc' = "tick" /\ UNCHANGED <<at, conn, rows, faults>>
       \/ /\ oltpOn /\ at <= Len(Reference)
          /\ \/ at' = at + 1 /\ rows' = SeedRows(Reference[at]) /\ UNCHANGED <<pc, conn, faults>>
             \/ pc' = "down" /\ at' = 1 /\ conn' = "none" /\ rows' \in {rows, SeedRows(Reference[at])} /\ Fault
       \/ oltpOn /\ at > Len(Reference) /\ pc' = "seed_ext" /\ at' = 1 /\ UNCHANGED <<conn, rows, faults>>
    /\ UNCHANGED <<oltpOn, stop, life, tick, todo, attempts, orders, out>>

\* A table is seeded when it is empty.  The managers are set in the seed of
\* their employees, so they are passed over when there are employees already.
Seeds(s) == s.after # "none" \/ rows[s.table] = 0
AfterSeed(s) == IF Seeds(s) \/ at = Len(SeedOrder) \/ SeedOrder[at + 1].after # s.table THEN at + 1 ELSE at + 2

\* One seed of seed_oltp.  An exception is logged and the seeds that are left
\* wait for the next start of the process.
SeedTable ==
    /\ pc = "seed_ext" /\ at <= Len(SeedOrder) /\ conn = "open"
    /\ LET s == SeedOrder[at]
           seeded == IF Seeds(s) THEN [rows EXCEPT ![s.table] = @ + 1] ELSE rows
       IN \/ at' = AfterSeed(s) /\ rows' = seeded /\ UNCHANGED <<pc, conn, faults>>
          \/ at' = 1 /\ rows' \in {rows, seeded} /\ pc' = "tick" /\ conn' \in {"open", "lost"} /\ Fault
    /\ UNCHANGED <<oltpOn, stop, life, tick, todo, attempts, orders, out>>

SeedDone ==
    /\ pc = "seed_ext" /\ at > Len(SeedOrder)
    /\ pc' = "tick" /\ at' = 1
    /\ UNCHANGED <<oltpOn, stop, life, tick, todo, attempts, oltp, out, faults>>

-----------------------------------------------------------------------------
(* KafkaPublisher.publish.  The producer sends what it has in the          *)
(* background; nobody reads its reports, so what it has sent is chosen     *)
(* when a flush, a new producer or the end of the process settles it.      *)

Emitting(e) == /\ tick % Every[e.name] = 0
               /\ e.table # "none" => oltpOn
               /\ e.table # "none" => conn = "open" /\ rows[e.table] > 0

Publishing == \/ pc \in {"clicks", "announce", "pay", "ship"}
              \/ pc = "ext" /\ at <= Len(TickOrder) /\ TickOrder[at].sink = "kafka" /\ Emitting(TickOrder[at])

TriedAgain(n) == IF n = 1 THEN 0 ELSE n + 1   \* mutant: the budget starts again after a full queue
Tried(n) == n + 1

\* The message is in the producer's queue.
Queued(m) == attempts < PublishAttempts /\ attempts' = 0 /\ buffer' = buffer \cup m

\* mutant: one attempt too many
QueueFullOnceMore ==
    /\ Publishing /\ attempts <= PublishAttempts
    /\ attempts' = attempts + 1
    /\ UNCHANGED <<oltpOn, pc, stop, life, tick, todo, at, oltp, out, faults>>

\* BufferError: the queue is full.
QueueFull ==
    /\ Publishing /\ attempts < PublishAttempts
    /\ attempts' = Tried(attempts)
    /\ UNCHANGED <<oltpOn, pc, stop, life, tick, todo, at, oltp, out, faults>>

\* A fatal error: a new producer, without the messages of the old one.
Recreate ==
    /\ Publishing /\ attempts < PublishAttempts /\ Fault
    /\ attempts' = Tried(attempts)
    /\ \E made \in SUBSET buffer : sent' = sent \cup made
    /\ buffer' = {}
    /\ UNCHANGED <<oltpOn, pc, stop, life, tick, todo, at, oltp>>

\* Any other error, or no attempt left.
PublishRaises ==
    /\ Publishing
    /\ IF attempts = PublishAttempts
       THEN faults' = IF faults < MaxFaults THEN faults + 1 ELSE faults
       ELSE Fault
    /\ Caught
    /\ UNCHANGED <<oltpOn, stop, life, tick, todo, oltp, out>>

\* KafkaPublisher.flush: everything is out, or the time is over.
Flushed == buffer' = {} /\ sent' = sent \cup buffer /\ UNCHANGED faults
FlushTimeout == Fault /\ \E made \in SUBSET buffer : sent' = sent \cup made /\ buffer' = buffer \ made
FlushFatal == Fault /\ buffer' = {} /\ \E made \in SUBSET buffer : sent' = sent \cup made

-----------------------------------------------------------------------------
(* One tick: the clicks, the orders one by one, the extensions and, every  *)
(* MinioBatchTicks, the files.                                             *)

StartTick ==
    /\ pc = "tick" /\ ~stop /\ tick < MaxTicks
    /\ pc' = "clicks" /\ tick' = tick + 1
    /\ UNCHANGED <<oltpOn, stop, life, todo, at, attempts, oltp, out, faults>>

\* _emit_clickstream, and the number of orders of the tick.  A failure of
\* Redis is an exception.
Clicks ==
    /\ pc = "clicks" /\ attempts < PublishAttempts
    /\ \/ pc' = "insert" /\ attempts' = 0 /\ UNCHANGED <<at, faults>>
          /\ todo' \in {n \in 0..PerTick : Len(orders) + n <= MaxOrders}
       \/ Caught /\ Fault /\ UNCHANGED todo
    /\ UNCHANGED <<oltpOn, stop, life, tick, oltp, out>>

\* insert_order, its first statement: the order without its items.
Inserted == Append(orders, "bare")

\* An order is made up and inserted.  The connection is in autocommit and is
\* never opened again: once lost, every statement raises.
InsertOrder ==
    /\ pc = "insert" /\ todo > 0
    /\ \/ ~oltpOn /\ Goto("announce") /\ UNCHANGED <<conn, orders, faults>>
       \/ conn = "open" /\ Goto("items") /\ orders' = Inserted /\ UNCHANGED <<conn, faults>>
       \/ conn = "open" /\ Goto("tick") /\ Fault /\ conn' \in {"open", "lost"}
          /\ orders' \in {orders, Inserted}
       \/ conn = "lost" /\ Goto("tick") /\ UNCHANGED <<conn, orders, faults>>
    /\ UNCHANGED <<rows, out>>

Completed == [orders EXCEPT ![Len(orders)] = "complete"]

\* mutant: a failure of the items is swallowed
InsertItemsSwallowed ==
    /\ pc = "items" /\ Goto("announce")
    /\ \/ orders' = Completed /\ UNCHANGED faults
       \/ Fault /\ UNCHANGED orders
    /\ UNCHANGED <<conn, rows, out>>

\* insert_order, its order_items: one implicit transaction.
InsertItems ==
    /\ pc = "items"
    /\ \/ Goto("announce") /\ orders' = Completed /\ UNCHANGED <<conn, faults>>
       \/ Goto("tick") /\ Fault /\ conn' \in {"open", "lost"} /\ orders' \in {orders, Completed}
    /\ UNCHANGED <<rows, out>>

OrderId == IF oltpOn THEN Len(orders) ELSE 0

\* publish(kind) of the order at hand, then on to next.
PublishOrder(kind, next) ==
    /\ Queued({Message(kind, OrderId)})
    /\ pc' = next
    /\ UNCHANGED <<oltpOn, stop, life, tick, todo, at, oltp, sent, faults>>

\* A group of Redis calls: an exception ends the tick.
Redis(next) ==
    /\ \/ Goto(next) /\ UNCHANGED faults
       \/ Goto("tick") /\ Fault
    /\ UNCHANGED <<oltp, out>>

Announce      == pc = "announce" /\ PublishOrder("order", "notify")
Notify        == pc = "notify" /\ Redis("pay")
Pay           == pc = "pay" /\ PublishOrder("payment", "notify_pay")
NotifyPayment == pc = "notify_pay" /\ Redis("ship")

NextOrder == pc' = "insert" /\ todo' = todo - 1 /\ UNCHANGED <<oltpOn, stop, life, tick, at, oltp, sent, faults>>

\* Four orders of ten have a shipment.
Ship   == pc = "ship" /\ Queued({Message("shipment", OrderId)}) /\ NextOrder
NoShip == pc = "ship" /\ attempts = 0 /\ UNCHANGED <<buffer, attempts>> /\ NextOrder

OrdersDone == pc = "insert" /\ todo = 0 /\ Goto("flush") /\ UNCHANGED <<oltp, out, faults>>

\* The two flushes of a tick; an exception of the first skips the extensions.
Flush ==
    /\ pc \in {"flush", "flush_ext"}
    /\ \/ Goto(IF pc = "flush" THEN "ext" ELSE "batch") /\ (Flushed \/ FlushTimeout \/ FlushFatal)
       \/ Goto("tick") /\ Fault /\ UNCHANGED out
    /\ UNCHANGED oltp

-----------------------------------------------------------------------------
(* SyntheticExtensions.on_tick_extensions.                                 *)

NextEmitter == at' = at + 1 /\ pc' = "ext" /\ UNCHANGED <<oltpOn, stop, life, tick, todo, oltp>>

Emit ==
    /\ pc = "ext" /\ at <= Len(TickOrder) /\ Emitting(TickOrder[at])
    /\ LET e == TickOrder[at] IN
       \/ e.sink = "kafka" /\ Queued({Message(e.name, 0)}) /\ UNCHANGED sent
       \/ e.sink = "minio" /\ sent' = sent \cup {Message(e.name, 0)} /\ UNCHANGED <<buffer, attempts>>
       \/ e.sink = "redis" /\ UNCHANGED <<out, attempts>>
    /\ NextEmitter /\ UNCHANGED faults

\* It is not the emitter's tick, or its table is empty.
SkipEmitter ==
    /\ pc = "ext" /\ at <= Len(TickOrder)
    /\ LET e == TickOrder[at] IN
       \/ tick % Every[e.name] # 0
       \/ e.table # "none" /\ ~oltpOn
       \/ e.table # "none" /\ conn = "open" /\ rows[e.table] = 0
    /\ NextEmitter /\ UNCHANGED <<attempts, out, faults>>

\* A statement, an upload or a Redis call raises: the emitters after it wait
\* for the next tick.
EmitRaises ==
    /\ pc = "ext" /\ at <= Len(TickOrder) /\ attempts = 0
    /\ LET e == TickOrder[at] IN
       /\ tick % Every[e.name] = 0 /\ (e.table # "none" => oltpOn)
       /\ \/ e.table # "none" /\ conn = "lost" /\ UNCHANGED <<conn, sent, faults>>
          \/ e.table # "none" /\ conn = "open" /\ Fault /\ conn' \in {"open", "lost"} /\ UNCHANGED sent
          \/ Emitting(e) /\ e.sink = "redis" /\ Fault /\ UNCHANGED <<conn, sent>>
          \/ Emitting(e) /\ e.sink = "minio" /\ Fault /\ UNCHANGED conn
             /\ sent' \in {sent, sent \cup {Message(e.name, 0)}}
    /\ Caught
    /\ UNCHANGED <<oltpOn, stop, life, tick, todo, orders, rows, buffer>>

EmittersDone ==
    /\ pc = "ext" /\ at > Len(TickOrder)
    /\ pc' = "flush_ext" /\ at' = 1
    /\ UNCHANGED <<oltpOn, stop, life, tick, todo, attempts, oltp, out, faults>>

Files == <<"payments_file", "returns_file", "catalog_file">>

\* _emit_minio_batch: three uploads, of which the first n get through.
MinioBatch ==
    /\ pc = "batch" /\ Goto("tick")
    /\ \/ tick % MinioBatchTicks # 0 /\ UNCHANGED <<sent, faults>>
       \/ /\ tick % MinioBatchTicks = 0
          /\ \E n \in 0..Len(Files) :
                /\ sent' = sent \cup {Message(Files[i], 0) : i \in 1..n}
                /\ \/ n = Len(Files) /\ UNCHANGED faults
                   \/ Fault
    /\ UNCHANGED <<oltp, buffer>>

-----------------------------------------------------------------------------
(* The end of the process and its restart by Docker.                       *)

StopAtOnce == ~stop /\ pc \notin {"stopped", "down"} /\ stop' = TRUE /\ pc' = "stopping"   \* mutant: the tick is not finished
              /\ UNCHANGED <<oltpOn, life, local, oltp, out, faults>>
\* The handler of SIGTERM and SIGINT.
Stop == ~stop /\ pc \notin {"stopped", "down"} /\ stop' = TRUE
        /\ UNCHANGED <<oltpOn, pc, life, local, oltp, out, faults>>

\* The loop ends: the last flush has five seconds.
LastFlush ==
    /\ \/ pc = "tick" /\ stop /\ Goto("stopping") /\ UNCHANGED <<out, faults>>
       \/ pc = "stopping" /\ Goto("close") /\ (Flushed \/ FlushTimeout \/ FlushFatal)
    /\ UNCHANGED oltp

Ending == pc = "close" /\ Goto("stopped") /\ conn' = "none" /\ UNCHANGED <<orders, rows, out, faults>>

Kill ==
    /\ pc \notin {"stopped", "down"} /\ Fault
    /\ pc' = "down" /\ conn' = "none"
    /\ buffer' = {} /\ \E made \in SUBSET buffer : sent' = sent \cup made
    /\ UNCHANGED <<oltpOn, stop, life, local, orders, rows>>

\* restart: unless-stopped.
Restart ==
    /\ pc = "down" /\ ~stop /\ life < MaxLives
    /\ pc' = "connect" /\ life' = life + 1 /\ LoadConfig
    /\ tick' = 0 /\ todo' = 0 /\ at' = 1 /\ attempts' = 0
    /\ UNCHANGED <<stop, oltp, out, faults>>

Starting == Connect \/ SeedReference \/ SeedTable \/ SeedDone
Ordering == StartTick \/ Clicks \/ InsertOrder \/ InsertItems \/ Announce \/ Notify \/ Pay \/ NotifyPayment
            \/ Ship \/ NoShip \/ OrdersDone
Emission == Emit \/ SkipEmitter \/ EmitRaises \/ EmittersDone \/ MinioBatch
Process  == Starting \/ Ordering \/ QueueFull \/ Recreate \/ PublishRaises \/ Flush \/ Emission \/ LastFlush \/ Ending

Next == Process \/ Stop \/ Kill \/ Restart

Spec == Init /\ [][Next]_vars

\* The process takes its steps; that it is stopped, killed or started again is
\* nobody's promise.
FairSpec == Spec /\ WF_vars(Process)

-----------------------------------------------------------------------------
\* StreamingGenerator._emit_orders and the emitters: what is in Kafka or MinIO
\* and names an order, a campaign or an employee has its rows in the OLTP
\* database, the items of the order included, whatever call failed and wherever
\* the process was killed.  Joins of the warehouse rest on it.
AnnouncedIsStored ==
    \A m \in sent \cup buffer :
        /\ m.order > 0 => /\ m.order <= Len(orders) /\ orders[m.order] = "complete"
                          /\ rows["users"] > 0 /\ rows["products"] > 0
        /\ \A i \in DOMAIN TickOrder :
              TickOrder[i].name = m.kind /\ TickOrder[i].table # "none" => rows[TickOrder[i].table] > 0

\* seed_reference and seed_oltp: no table gets its seed twice, over all lives of
\* the process and every failure in between, but the sellers, which every life
\* inserts once more.
SeededOnce == \A t \in Tables : rows[t] <= IF t = "sellers" THEN life ELSE 1

\* The generator's side of the OLTP database, whatever fails: nothing is
\* announced that is not stored, and nothing is seeded twice.
OltpIsSound == AnnouncedIsStored /\ SeededOnce

\* StreamingGenerator.stop and run: a stop "finishes the current tick".  When no
\* call failed, every order that was inserted has its items, its order event
\* and its payment event in Kafka once the process has stopped.
CleanStop ==
    pc = "stopped" /\ faults = 0 =>
        \A o \in DOMAIN orders :
            orders[o] = "complete" /\ {Message("order", o), Message("payment", o)} \subseteq sent

\* StreamingGenerator.run: after the signal the process ends, whatever it was
\* doing and however full the producer's queue is.
StopEnds == stop ~> pc \in {"stopped", "down"}
=============================================================================
