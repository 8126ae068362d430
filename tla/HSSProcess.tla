----------------------------- MODULE HSSProcess -----------------------------
(***************************************************************************)
(* The process from main() to its end, the statistics thread (SStats, an   *)
(* SEventThread) and the workers' queue, over SQueue: main starts the      *)
(* parts, waits for a signal and shuts them down; Diameter threads         *)
(* register what passes, the OSS endpoint asks for the live counts, a      *)
(* timer has them reported; callbacks of the database give work to a       *)
(* worker until the end.                                                   *)
(***************************************************************************)
EXTENDS SQueue

CONSTANTS
    Types,          \* kinds of requests that are counted
    MaxEvents,      \* bound: messages that pass
    MaxWork,        \* bound: callbacks of the database
    MaxTimer        \* bound: signals of the statistics timer

ASSUME ProcessAssumption ==
    /\ Threads = {"main", "diameter", "oss", "db", "stats", "worker", Timer}
    /\ Timer \notin {"main", "diameter", "oss", "db", "stats", "worker"}
    /\ Queues = {"stats", "work"}
    /\ Types \cap {None, "INIT", "QUIT", "LIVE", "TIMER", "CONSOLIDATE", "work"} = {}
    /\ {MaxEvents, MaxWork, MaxTimer} \subseteq Nat

VARIABLES
    main,       \* where main() is
    asked,      \* shutdownEvent is set
    engine,     \* the Diameter engine: off, on, stopping
    thread,     \* the statistics thread: none, waiting, running, done
    armed,      \* its timer is started
    count,      \* the collectors
    shown,      \* the counts of the last report
    live,       \* the query of the OSS endpoint: its state and result
    seen,       \* history: what passed, and what had been registered before the
                \*   query and before the thread was told to quit
    left        \* how many more messages, callbacks and signals there may be

procVars == <<main, asked, engine, thread, armed, count, shown, live, seen, left>>
vars == <<queueVars, procVars>>

Zero == [y \in Types |-> 0]

Init ==
    /\ InitQueue
    /\ main = "init" /\ asked = FALSE /\ engine = "off" /\ thread = None /\ armed = FALSE
    /\ count = Zero /\ shown = Zero
    /\ live = [pc |-> "idle", counts |-> Zero]
    /\ seen = [passed |-> Zero, beforeLive |-> Zero, beforeQuit |-> Zero]
    /\ left = [events |-> MaxEvents, work |-> MaxWork, timer |-> MaxTimer]

\* What passed and is in the queue or was counted.
Registered ==
    [y \in Types |-> seen.passed[y]
        - (IF call["diameter"].op = "push" /\ call["diameter"].msg = y THEN 1 ELSE 0)]

Ended == main \in {"gone", "undefined"}

-----------------------------------------------------------------------------
(* main().                                                                  *)

Go(pc) == main' = pc
MainIs(pc) == main = pc /\ Idle("main")

\* handler(): SIGINT and SIGTERM; the event is a pipe and stays set.
Signal ==
    /\ ~asked /\ ~Ended /\ asked' = TRUE
    /\ UNCHANGED <<queueVars, main, engine, thread, armed, count, shown, live, seen, left>>

\* FDHss::init(): the engine, the REST servers; each may fail and init returns.
StartEngine ==
    /\ MainIs("init")
    /\ \/ engine' = "on" /\ Go("rest")
       \/ engine' = engine /\ Go("shutdown")
    /\ UNCHANGED <<queueVars, asked, thread, armed, count, shown, live, seen, left>>

StartRest ==
    /\ MainIs("rest") /\ (Go("create") \/ Go("shutdown"))
    /\ UNCHANGED <<queueVars, asked, engine, thread, armed, count, shown, live, seen, left>>

\* SThread::init(): creates the thread and lets it run.
CreateStats ==
    /\ MainIs("create") /\ Go("started") /\ thread' = "waiting"
    /\ UNCHANGED <<queueVars, asked, engine, armed, count, shown, live, seen, left>>

\* SEventThread::init(): when it runs it is sent ETM_INIT.
PostInit ==
    /\ MainIs("started") /\ thread # "waiting" /\ Go("wait")
    /\ BeginPush("main", "stats", "INIT")
    /\ UNCHANGED <<items, sem, owner, host, stolen,
                   asked, engine, thread, armed, count, shown, live, seen, left>>

AwaitShutdown ==
    /\ MainIs("wait") /\ asked /\ Go("shutdown")
    /\ UNCHANGED <<queueVars, asked, engine, thread, armed, count, shown, live, seen, left>>

\* FDHss::shutdown(): the endpoints, which finish the request they serve, and
\* the engine, which is told to stop.
Shutdown ==
    /\ MainIs("shutdown") /\ Idle("oss") /\ live.pc # "waiting"
    /\ engine' = IF engine = "on" THEN "stopping" ELSE engine
    /\ Go("quit")
    /\ UNCHANGED <<queueVars, asked, thread, armed, count, shown, live, seen, left>>

QuitStats_Front ==
    /\ MainIs("quit") /\ Go("complete") /\ seen' = [seen EXCEPT !.beforeQuit = Registered]
    /\ items' = IF thread = "running" THEN [items EXCEPT !["stats"] = <<"QUIT">> \o @] ELSE items
    /\ sem' = IF thread = "running" THEN [sem EXCEPT !["stats"] = @ + 1] ELSE sem
    /\ UNCHANGED <<call, owner, host, stolen,
                   asked, engine, thread, armed, count, shown, live, left>>

QuitStats ==
    /\ MainIs("quit") /\ Go("complete")
    /\ IF thread = "running"
       THEN /\ BeginPush("main", "stats", "QUIT")
            /\ seen' = [seen EXCEPT !.beforeQuit = Registered]
       ELSE UNCHANGED <<call, seen>>
    /\ UNCHANGED <<items, sem, owner, host, stolen,
                   asked, engine, thread, armed, count, shown, live, left>>

\* FDEngine::waitForShutdown(): no thread of the engine is left in a callback.
EngineStopped ==
    /\ MainIs("complete") /\ Idle("diameter") /\ engine' = "off" /\ Go("join")
    /\ UNCHANGED <<queueVars, asked, thread, armed, count, shown, live, seen, left>>

\* SThread::join(): returns at once only for a thread that ran; one that was
\* never created counts as suspended and a thread id that was not set is joined.
Join ==
    /\ MainIs("join")
    /\ \/ thread = None /\ Go("undefined")
       \/ thread = "done" /\ Go("drain")
    /\ UNCHANGED <<queueVars, asked, engine, thread, armed, count, shown, live, seen, left>>

\* After main(): ~FDHss destroys the workers' queue, which takes messages
\* without waiting until there are none; the worker is still there, and the
\* database is disconnected later.
Drain ==
    /\ MainIs("drain") /\ Go("drained")
    /\ BeginPop("main", "work", FALSE)
    /\ UNCHANGED <<items, sem, owner, host, stolen,
                   asked, engine, thread, armed, count, shown, live, seen, left>>

Drained ==
    /\ MainIs("drained") /\ Go(IF call["main"].msg = None THEN "gone" ELSE "drain")
    /\ UNCHANGED <<queueVars, asked, engine, thread, armed, count, shown, live, seen, left>>

Main ==
    \/ StartEngine \/ StartRest \/ CreateStats \/ PostInit \/ AwaitShutdown \/ Shutdown
    \/ QuitStats \/ EngineStopped \/ Join \/ Drain \/ Drained

-----------------------------------------------------------------------------
(* Those who post.                                                          *)

\* The hooks and processors: registerStatAttemp() and registerStatResult().
Pass(y) ==
    /\ engine # "off" /\ left.events > 0 /\ BeginPush("diameter", "stats", y)
    /\ seen' = [seen EXCEPT !.passed[y] = @ + 1]
    /\ left' = [left EXCEPT !.events = @ - 1]
    /\ UNCHANGED <<items, sem, owner, host, stolen,
                   main, asked, engine, thread, armed, count, shown, live>>

\* getLive(): posts the query and waits, at most five seconds.
AskLive ==
    /\ main \in {"create", "started", "wait"} /\ live.pc = "idle"
    /\ BeginPush("oss", "stats", "LIVE")
    /\ live' = [live EXCEPT !.pc = "waiting"]
    /\ seen' = [seen EXCEPT !.beforeLive = Registered]
    /\ UNCHANGED <<items, sem, owner, host, stolen,
                   main, asked, engine, thread, armed, count, shown, left>>

LiveTimeout ==
    /\ live.pc = "waiting" /\ Idle("oss")
    /\ live' = [live EXCEPT !.pc = "timed out"]
    /\ UNCHANGED <<queueVars, main, asked, engine, thread, armed, count, shown, seen, left>>

\* on_ulr_callback() and the others: triggerNextPhase().
AddWork ==
    /\ left.work > 0 /\ BeginPush("db", "work", "work")
    /\ left' = [left EXCEPT !.work = @ - 1]
    /\ UNCHANGED <<items, sem, owner, host, stolen,
                   main, asked, engine, thread, armed, count, shown, live, seen>>

GetWork ==
    /\ BeginPop("worker", "work", TRUE)
    /\ UNCHANGED <<items, sem, owner, host, stolen, procVars>>

\* The timer is not stopped when the thread ends.
Fire(t) ==
    /\ armed /\ left.timer > 0 /\ Interrupt(t, "stats", "TIMER")
    /\ left' = [left EXCEPT !.timer = @ - 1]
    /\ UNCHANGED <<main, asked, engine, thread, armed, count, shown, live, seen>>

-----------------------------------------------------------------------------
(* The statistics thread.                                                   *)

\* _threadProc(): runs when resumed.
RunStats ==
    /\ thread = "waiting" /\ Idle("stats") /\ thread' = "running"
    /\ UNCHANGED <<queueVars, main, asked, engine, armed, count, shown, live, seen, left>>

\* getSerializedStat(): the line of SRR shows the collector of RIR.
Collector(y) == IF y = "srr" /\ "rir" \in Types THEN "rir" ELSE y

\* processStatAttemp() and processStatResult(): one collector for each kind.
Counted(m) == [y \in Types |-> count[y] + (IF m = y THEN 1 ELSE 0)]

\* processStatGetLive(): a query that timed out is answered too, unread.
Answered(m) ==
    IF m = "LIVE"
    THEN [pc |-> IF live.pc = "waiting" THEN "answered" ELSE live.pc, counts |-> count]
    ELSE live

\* The dispatch() of SEventThread and of SStats: one message, and the thread
\* ends or waits for the next one.  Reports reset nothing.
Dispatch ==
    LET m == call["stats"].msg
    IN  /\ thread = "running" /\ Idle("stats")
        /\ armed' = (armed \/ m = "INIT")
        /\ thread' = IF m = "QUIT" THEN "done" ELSE thread
        /\ count' = Counted(m)
        /\ shown' = IF m = "CONSOLIDATE" THEN [y \in Types |-> count[Collector(y)]] ELSE shown
        /\ live' = Answered(m)
        /\ CASE m = "TIMER" -> BeginPush("stats", "stats", "CONSOLIDATE")
             [] m = "QUIT" -> UNCHANGED call
             [] OTHER -> BeginPop("stats", "stats", TRUE)
        /\ UNCHANGED <<items, sem, owner, host, stolen, main, asked, engine, seen, left>>

-----------------------------------------------------------------------------

Run ==
    \/ \E t \in Threads : QueueStep(t) /\ UNCHANGED procVars
    \/ Main \/ RunStats \/ Dispatch \/ GetWork \/ LiveTimeout

Environment ==
    \/ Signal \/ AskLive \/ AddWork
    \/ \E y \in Types : Pass(y)
    \/ \E t \in Threads : Fire(t)

Next == ~Ended /\ (Run \/ Environment)

\* Threads that can go on do; nothing is assumed of signals, messages and
\* callbacks, and the bounds let every behaviour come to rest.
Spec == Init /\ [][Next]_vars /\ WF_vars(~Ended /\ Run)

-----------------------------------------------------------------------------
(* Properties.                                                              *)

\* The counts anyone is shown are right.  The live counts that getLive() returns
\* in time have every message that was registered before the query and none that
\* has not passed; a line of the report never shows more than what passed of its
\* kind and never goes back (getSerializedStat, resetStats), but for the line of
\* SRR, which shows another collector.
ShownCounts ==
    /\ live.pc = "answered" => \A y \in Types :
          seen.beforeLive[y] <= live.counts[y] /\ live.counts[y] <= seen.passed[y]
    /\ \A y \in Types \ {"srr"} : shown[y] <= count[y] /\ count[y] <= seen.passed[y]

\* What was registered before shutdown() told the statistics to quit is counted
\* when the thread ends, though other threads register and the timer fires
\* meanwhile.
CountedBeforeEnd ==
    thread = "done" => \A y \in Types : seen.beforeQuit[y] <= count[y]

LostInDrain == In("work", "pop", "claim") # {} /\ sem["work"] = 0

\* A signal, whenever it comes, ends the process: main wakes up, the statistics
\* thread reads its last message and is joined, the queue is emptied.  The one
\* way out is the destructor that waits for a message a worker took.
ExitsWhenAsked == asked ~> (Ended \/ LostInDrain)
=============================================================================
