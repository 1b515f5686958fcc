----------------------------- MODULE SocketWait -----------------------------
(***************************************************************************)
(* How rx_task and tx_task wait in accept, recv and send: tcp_sleep and    *)
(* tcp_wakeup of tk_crnos.c, the loops of t_accept, soreceive and sosend   *)
(* around them, the lock NET_RESID, and the semaphores of uC/OS-II.        *)
(*                                                                         *)
(* An event is what a call waits for: so_timeo of the listening socket, or *)
(* sb_cc of a receive or send buffer.  What the call can return with (a    *)
(* connection, data, room, an error, the end of the data) is counted in    *)
(* avail.  Each event has one task that waits for it.  A step is one       *)
(* access to the table or to a semaphore; a task is preempted between any  *)
(* two, by tasks of higher priority and by the tasks of the stack:         *)
(* tk_netmain, which takes the packets, and tk_nettick, which runs timers. *)
(***************************************************************************)
EXTENDS Naturals, FiniteSets

CONSTANTS Tasks, Priority,   \* the tasks of the application; a low number is a high priority
          Listening,         \* the event of the listening socket
          Events,            \* of each task
          GLOBWAKE_SZ,       \* the size of the table: 20
          MaxAvail,          \* bound: counted connections, data, room
          tk_netmain, tk_nettick, None

Stack == {tk_netmain, tk_nettick}
Slots == 0 .. GLOBWAKE_SZ - 1
AllEvents == UNION {Events[t] : t \in Tasks}

ASSUME WaitAssumption ==
    /\ IsFiniteSet(Tasks) /\ Stack \cap Tasks = {} /\ None \notin Tasks \cup AllEvents \cup Stack
    /\ tk_netmain # tk_nettick /\ Listening \in AllEvents
    /\ Priority \in [Tasks -> Nat]
    /\ \A t, u \in Tasks : t # u => Priority[t] # Priority[u] /\ Events[t] \cap Events[u] = {}
    /\ GLOBWAKE_SZ \in Nat /\ MaxAvail \in Nat

VARIABLES
    NET_RESID,    \* who has the lock, or has been handed it
    soc_event,    \* global_TCPwakeup_set: the event of each entry
    ctick,        \* and whether its time stamp is not 0
    semaphore,    \* and the count of its semaphore
    pc, event, i, \* of each task: place, event it waits for, entry it has taken
    avail,
    signal        \* the event that a task of the stack is about to wake

vars == <<NET_RESID, soc_event, ctick, semaphore, pc, event, i, avail, signal>>

Init ==
    /\ NET_RESID = None
    /\ soc_event = [s \in Slots |-> None] /\ ctick = [s \in Slots |-> FALSE]
    /\ semaphore = [s \in Slots |-> 0]
    /\ pc = [t \in Tasks |-> "idle"] /\ event = [t \in Tasks |-> None]
    /\ i = [t \in Tasks |-> None]
    /\ avail = [e \in AllEvents |-> 0]
    /\ signal = None

\* A task between two calls is not counted: whether it computes or waits for something else
\* is not told apart, and tasks of lower priority may run in either case.
Ready(t) == \/ pc[t] \in {"lock", "test", "pend", "expired", "clear", "relock"}
            \/ pc[t] \in {"blocked", "reblocked"} /\ NET_RESID = t

\* No task of higher priority is ready.
Runs(t) == \A u \in Tasks : Priority[u] < Priority[t] => ~ Ready(u)

Goes(t, from, to) == pc[t] = from /\ Runs(t) /\ pc' = [pc EXCEPT ![t] = to]

HighestPriority(S) == CHOOSE t \in S : \A u \in S : Priority[t] <= Priority[u]

-----------------------------------------------------------------------------
(* The lock, a semaphore without a timeout.  OSSemPost hands it to the waiting task of highest
   priority, which one of the stack is if it waits. *)

Blocked == {t \in Tasks : pc[t] \in {"blocked", "reblocked"}}

UNLOCK_NET_RESOURCE(by) ==
    \/ Blocked = {} /\ NET_RESID' = None
    \/ Blocked # {} /\ NET_RESID' = HighestPriority(Blocked)
    \/ NET_RESID' \in Stack \ {by}

\* At the start of a call, and at the end of tcp_sleep.
LOCK_NET_RESOURCE(t) ==
    /\ \/ /\ Goes(t, "lock", "test") \/ Goes(t, "relock", "test")
          /\ NET_RESID = None
          /\ NET_RESID' = t
          /\ i' = [i EXCEPT ![t] = None]
       \/ /\ Goes(t, "lock", "blocked") \/ Goes(t, "relock", "reblocked")
          /\ NET_RESID # None
          /\ UNCHANGED <<NET_RESID, i>>
       \/ /\ Goes(t, "blocked", "test") \/ Goes(t, "reblocked", "test")
          /\ NET_RESID = t
          /\ i' = [i EXCEPT ![t] = None]
          /\ UNCHANGED NET_RESID
    /\ UNCHANGED <<soc_event, ctick, semaphore, event, avail, signal>>

-----------------------------------------------------------------------------
(* The socket calls *)

Call(t) ==
    /\ Goes(t, "idle", "lock")
    /\ \E e \in Events[t] : event' = [event EXCEPT ![t] = e]
    /\ UNCHANGED <<NET_RESID, soc_event, ctick, semaphore, i, avail, signal>>

CanReturn(t) == avail[event[t]] > 0

\* The call returns, with what it waited for or, without memory, with an error.
Return(t) ==
    /\ Goes(t, "test", "idle")
    /\ CanReturn(t)
    /\ \/ avail' = [avail EXCEPT ![event[t]] = @ - 1]
       \/ UNCHANGED avail
    /\ UNLOCK_NET_RESOURCE(t)
    /\ event' = [event EXCEPT ![t] = None]
    /\ UNCHANGED <<soc_event, ctick, semaphore, i, signal>>

-----------------------------------------------------------------------------
(* tcp_sleep *)

Free == {s \in Slots : soc_event[s] = None}

\* The first free entry is taken, and the lock given up.
Register(t) ==
    /\ Goes(t, "test", "pend")
    /\ ~ CanReturn(t)
    /\ UNLOCK_NET_RESOURCE(t)
    /\ \E s \in Free :
          /\ \A r \in Free : s <= r
          /\ soc_event' = [soc_event EXCEPT ![s] = event[t]]
          /\ i' = [i EXCEPT ![t] = s]
          /\ \E nonzero \in BOOLEAN : ctick' = [ctick EXCEPT ![s] = nonzero]
    /\ UNCHANGED <<semaphore, event, avail, signal>>

\* The table is full: TK_YIELD sleeps until the next tick.
Yield(t) ==
    /\ Goes(t, "test", "delay")
    /\ ~ CanReturn(t)
    /\ Free = {}
    /\ UNLOCK_NET_RESOURCE(t)
    /\ UNCHANGED <<soc_event, ctick, semaphore, event, i, avail, signal>>

\* OSSemPend: takes the token that is there, or joins the wait list.
Pend(t) ==
    /\ \/ /\ Goes(t, "pend", "relock")
          /\ semaphore[i[t]] > 0
          /\ semaphore' = [semaphore EXCEPT ![i[t]] = @ - 1]
       \/ /\ Goes(t, "pend", "wait")
          /\ semaphore[i[t]] = 0
          /\ UNCHANGED semaphore
    /\ UNCHANGED <<NET_RESID, soc_event, ctick, event, i, avail, signal>>

\* Mutant: OSSemPend is given no timeout.
ExpiresNever(t) == FALSE

Expires(t) == pc[t] = "wait"

\* OSTimeTick makes a task ready whose time is over; one that pends stays in the wait list.
OSTimeTick(t) ==
    /\ \/ Expires(t) /\ pc' = [pc EXCEPT ![t] = "expired"]
       \/ pc[t] = "delay" /\ pc' = [pc EXCEPT ![t] = "relock"]
    /\ UNCHANGED <<NET_RESID, soc_event, ctick, semaphore, event, i, avail, signal>>

\* The task runs: OSSemPend takes it from the wait list and returns OS_ERR_TIMEOUT.
TimedOut(t) ==
    /\ Goes(t, "expired", "clear")
    /\ UNCHANGED <<NET_RESID, soc_event, ctick, semaphore, event, i, avail, signal>>

\* It clears the entry, whosever it is by now, without the lock.
Clear(t) ==
    /\ Goes(t, "clear", "relock")
    /\ soc_event' = [soc_event EXCEPT ![i[t]] = None]
    /\ ctick' = [ctick EXCEPT ![i[t]] = FALSE]
    /\ UNCHANGED <<NET_RESID, semaphore, event, i, avail, signal>>

-----------------------------------------------------------------------------
(* The stack.  tk_netmain runs ip_rcv under the lock, and tk_nettick tcp_slowtimo. *)

\* The stack takes the lock to signal e, or has been handed it.
Enter(by, e) ==
    /\ signal = None /\ NET_RESID \in {None, by}
    /\ NET_RESID' = by
    /\ signal' = e
    /\ UNCHANGED <<soc_event, ctick, semaphore, pc, event, i>>

\* Something arrives, and its event is signalled.  (A connection that tcp_slowtimo drops counts
\* as such an arrival.)
Deliver(e) ==
    /\ Enter(tk_netmain, e)
    /\ avail' = [avail EXCEPT ![e] = IF @ < MaxAvail THEN @ + 1 ELSE @]

\* Twice a second so_timeo of every socket is signalled for nothing.
tcp_slowtimo == Enter(tk_nettick, Listening) /\ UNCHANGED avail

\* SB_WAIT of the buffer: its task is inside sbwait.
SB_WAIT(e) ==
    \E t \in Tasks :
       event[t] = e /\ pc[t] \in {"pend", "wait", "expired", "clear", "delay", "relock", "reblocked"}

Waiting(s) == {t \in Tasks : pc[t] \in {"wait", "expired"} /\ i[t] = s}

\* The entries that tcp_wakeup posts.
Signalled == {s \in Slots : ctick[s] /\ soc_event[s] = signal}

\* Mutant: the entries stay in the table.
ClearedNot(s) == FALSE

Cleared(s) == s \in Signalled

\* tcp_wakeup, with the scheduler locked, unless sbwakeup sees that nobody waits; and the
\* lock is given up.  OSSemPost readies a task or counts.
Wake ==
    /\ signal # None /\ signal' = None
    /\ UNLOCK_NET_RESOURCE(NET_RESID)
    /\ \/ /\ signal = Listening \/ SB_WAIT(signal)
          /\ soc_event' = [s \in Slots |-> IF Cleared(s) THEN None ELSE soc_event[s]]
          /\ ctick' = [s \in Slots |-> ctick[s] /\ ~ Cleared(s)]
          /\ semaphore' = [s \in Slots |-> IF s \in Signalled /\ Waiting(s) = {}
                                           THEN semaphore[s] + 1 ELSE semaphore[s]]
          /\ pc' = [t \in Tasks |->
                      IF \E s \in Signalled : Waiting(s) # {} /\ t = HighestPriority(Waiting(s))
                      THEN "relock" ELSE pc[t]]
       \/ /\ signal # Listening /\ ~ SB_WAIT(signal)
          /\ UNCHANGED <<soc_event, ctick, semaphore, pc>>
    /\ UNCHANGED <<event, i, avail>>

-----------------------------------------------------------------------------
tcp_sleep(t) == Register(t) \/ Yield(t) \/ Pend(t) \/ TimedOut(t) \/ Clear(t)

Next ==
    \/ \E t \in Tasks : Call(t) \/ LOCK_NET_RESOURCE(t) \/ Return(t) \/ tcp_sleep(t) \/ OSTimeTick(t)
    \/ \E e \in AllEvents : Deliver(e)
    \/ tcp_slowtimo
    \/ Wake

Spec == Init /\ [][Next]_vars

\* A second passes, the stack gives the lock back, and a task that can run is run: the one of
\* higher priority leaves it the processor again and again, whenever it waits.  Clients need
\* not send anything, and a task need not make a call.
FairSpec ==
    /\ Spec
    /\ \A t \in Tasks :
          /\ SF_vars(LOCK_NET_RESOURCE(t) \/ Return(t) \/ tcp_sleep(t))
          /\ WF_vars(OSTimeTick(t))
    /\ WF_vars(Wake)
    /\ WF_vars(NET_RESID \in Stack /\ (tcp_slowtimo \/ \E e \in AllEvents : Deliver(e)))

-----------------------------------------------------------------------------
(* Properties *)

TypeOK ==
    /\ NET_RESID \in Tasks \cup Stack \cup {None}
    /\ soc_event \in [Slots -> AllEvents \cup {None}] /\ ctick \in [Slots -> BOOLEAN]
    /\ semaphore \in [Slots -> Nat]
    /\ pc \in [Tasks -> {"idle", "lock", "blocked", "test", "pend", "wait", "expired", "clear", "delay",
                        "relock", "reblocked"}]
    /\ \A t \in Tasks : event[t] \in Events[t] \cup {None}
    /\ i \in [Tasks -> Slots \cup {None}]
    /\ avail \in [AllEvents -> 0 .. MaxAvail]
    /\ signal \in AllEvents \cup {None}

\* The tasks between their registration in an entry and their wait on it.
Pending(s) == {t \in Tasks : pc[t] = "pend" /\ i[t] = s}

\* A wake-up that finds its task timed out leaves a token behind, which makes a later sleep on
\* that entry end at once and leave the entry behind.  They do not pile up: there is one at most
\* beyond those for the tasks that are about to wait.
TokensBounded == \A s \in Slots : semaphore[s] <= Cardinality(Pending(s)) + 1

\* No task is between the start of a call and its wait.
AtRest == \A t \in Tasks : pc[t] \in {"idle", "wait", "delay"}

\* From some time on nothing arrives, and tcp_slowtimo, which goes on, comes while the tasks are
\* at rest: half a second is long compared with their steps.
Quiet == <>[][signal' \in {signal, None} \/ (tcp_slowtimo /\ AtRest)]_vars

\* tcp_sleep may return for nothing, miss its event since another task has cleared its entry
\* or taken its token, or find the table full: a call that can return does so all the same,
\* without a further event.  (Endless traffic may keep a task from the lock.)
EveryCallReturns ==
    Quiet => \A t \in Tasks : pc[t] # "idle" /\ avail[event[t]] > 0 ~> pc[t] = "idle"

\* "Wake up any tasks that might be waiting on this event." (tk_crnos.c)
NobodyMissed ==
    \A t \in Tasks : pc[t] = "wait" /\ avail[event[t]] > 0 => signal = event[t]
=============================================================================
