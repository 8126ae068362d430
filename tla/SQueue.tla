------------------------------- MODULE SQueue -------------------------------
(***************************************************************************)
(* SQueue, the queue between threads: a std::queue under a mutex and a     *)
(* semaphore that counts its messages.  A call is in the thread's call     *)
(* record; its steps are those another thread can tell apart.              *)
(*                                                                         *)
(* A timer posts its message from a signal handler (Timer::_timerHandler), *)
(* which runs on top of any thread; the thread goes on when it returns.    *)
(* The mutex is recursive, so that the handler gets it from its host.  A   *)
(* handler that interrupts its host inside std::queue itself is left out:  *)
(* what happens then is undefined.                                         *)
(***************************************************************************)
EXTENDS Naturals, Sequences, FiniteSets

CONSTANTS
    Queues,
    Threads,    \* the threads that call, Timer among them
    Timer       \* the handler of timer signals, a thread of its own

None == "none"

ASSUME QueueAssumption ==
    Timer \in Threads /\ IsFiniteSet(Threads) /\ None \notin Threads

VARIABLES
    items,      \* m_queue of each queue
    sem,        \* the value of m_sem
    owner,      \* the thread that holds m_mutex
    call,       \* the call each thread is in, or what its last one returned
    host,       \* the thread the handler interrupts
    stolen      \* history: queues of which a pop(false) lost the token it saw

queueVars == <<items, sem, owner, call, host, stolen>>

Returned(msg) == [op |-> None, q |-> None, pc |-> "returned", msg |-> msg]

Self(t) == IF t = Timer THEN host ELSE t

\* The thread is not in a call, and not interrupted.
Idle(t) == call[t].op = None /\ host # t
At(t, op, pc) == call[t].op = op /\ call[t].pc = pc /\ host # t

InitQueue ==
    /\ items = [q \in Queues |-> <<>>] /\ sem = [q \in Queues |-> 0]
    /\ owner = [q \in Queues |-> None] /\ host = None /\ stolen = {}
    /\ call = [t \in Threads |-> Returned(None)]

-----------------------------------------------------------------------------

\* push(): as the client's step.
BeginPush(t, q, m) ==
    /\ Idle(t)
    /\ call' = [call EXCEPT ![t] = [op |-> "push", q |-> q, pc |-> "lock", msg |-> m]]

Enter_NotRecursive(t, q) == owner[q] = None

\* SMutex::enter(), which waits whatever its argument.
Enter(t, q) == owner[q] \in {None, Self(t)}

Enqueue_PostFirst(t) ==
    LET c == call[t]
    IN  /\ At(t, "push", "lock")
        /\ sem' = [sem EXCEPT ![c.q] = @ + 1]
        /\ call' = [call EXCEPT ![t].pc = "post"]
        /\ UNCHANGED <<items, owner, host, stolen>>

Enqueue(t) ==
    LET c == call[t]
    IN  /\ At(t, "push", "lock") /\ Enter(t, c.q)
        /\ items' = [items EXCEPT ![c.q] = Append(@, c.msg)]
        /\ owner' = [owner EXCEPT ![c.q] = Self(t)]
        /\ call' = [call EXCEPT ![t].pc = "post"]
        /\ UNCHANGED <<sem, host, stolen>>

\* SSemaphore::increment(), and the mutex is left: by a handler, to a host that
\* holds it.
Post(t) ==
    LET c == call[t]
    IN  /\ At(t, "push", "post")
        /\ sem' = [sem EXCEPT ![c.q] = @ + 1]
        /\ owner' = [owner EXCEPT ![c.q] =
              IF t = Timer /\ call[host].q = c.q /\ call[host].pc = "post" THEN host ELSE None]
        /\ call' = [call EXCEPT ![t] = Returned(None)]
        /\ host' = IF t = Timer THEN None ELSE host
        /\ UNCHANGED <<items, stolen>>

\* pop(): with wait, or testing the value first.
BeginPop(t, q, wait) ==
    /\ Idle(t)
    /\ call' = [call EXCEPT ![t] = [op |-> "pop", q |-> q, msg |-> None,
                                   pc |-> IF wait THEN "wait" ELSE "test"]]

Test_Unseen(t) ==
    /\ At(t, "pop", "test")
    /\ call' = [call EXCEPT ![t].pc = "claim"]
    /\ UNCHANGED <<items, sem, owner, host, stolen>>

\* decrement(false) returns at once when the value is zero and then waits.
Test(t) ==
    /\ At(t, "pop", "test")
    /\ call' = [call EXCEPT ![t] = IF sem[@.q] = 0 THEN Returned(None)
                                   ELSE [@ EXCEPT !.pc = "claim"]]
    /\ UNCHANGED <<items, sem, owner, host, stolen>>

\* sem_wait(), resumed after signals; also for what the test has seen.
Wait(t) ==
    LET q == call[t].q
    IN  /\ At(t, "pop", "wait") \/ At(t, "pop", "claim")
        /\ sem[q] > 0
        /\ sem' = [sem EXCEPT ![q] = @ - 1]
        /\ call' = [call EXCEPT ![t].pc = "take"]
        /\ stolen' = stolen \cup {p \in {q} : \E u \in Threads \ {t} :
                                     call[u].q = q /\ call[u].pc = "claim"}
        /\ UNCHANGED <<items, owner, host>>

Take_Last(t) ==
    LET q == call[t].q
    IN  /\ At(t, "pop", "take") /\ Enter(t, q)
        /\ items' = [items EXCEPT ![q] = SubSeq(@, 1, Len(@) - 1)]
        /\ call' = [call EXCEPT ![t] = Returned(items[q][Len(items[q])])]
        /\ UNCHANGED <<sem, owner, host, stolen>>

\* front() and pop() under the mutex.
Take(t) ==
    LET q == call[t].q
    IN  /\ At(t, "pop", "take") /\ Enter(t, q)
        /\ items' = [items EXCEPT ![q] = Tail(@)]
        /\ call' = [call EXCEPT ![t] = Returned(Head(items[q]))]
        /\ UNCHANGED <<sem, owner, host, stolen>>

QueueStep(t) == Enqueue(t) \/ Post(t) \/ Test(t) \/ Wait(t) \/ Take(t)

\* A timer signal reaches thread t: the handler posts m.
Interrupt(t, q, m) ==
    /\ host = None /\ t # Timer /\ host' = t
    /\ call' = [call EXCEPT ![Timer] = [op |-> "push", q |-> q, pc |-> "lock", msg |-> m]]
    /\ UNCHANGED <<items, sem, owner, stolen>>

-----------------------------------------------------------------------------

In(q, op, pc) == {t \in Threads : call[t].q = q /\ call[t].op = op /\ call[t].pc = pc}

\* The semaphore counts the messages that nobody has claimed, and a thread that
\* got past it finds a message: SQueue::pop calls front() without looking.
TokensMatch ==
    \A q \in Queues :
        sem[q] + Cardinality(In(q, "pop", "take"))
            = Len(items[q]) - Cardinality(In(q, "push", "post"))

\* A pop(false) waits for a message only when another thread took, between the
\* test and the wait, the one it had seen: the destructor of a queue that no
\* other thread reads does not block.
BlocksOnlyWhenRaced ==
    \A q \in Queues : sem[q] = 0 /\ In(q, "pop", "claim") # {} => q \in stolen
=============================================================================
