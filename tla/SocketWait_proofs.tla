-------------------------- MODULE SocketWait_proofs --------------------------
(***************************************************************************)
(* Proofs about SocketWait, for any number of tasks, events and entries.   *)
(*                                                                         *)
(* TokensBounded is not inductive: tcp_wakeup adds a token for every entry *)
(* it finds, so the entries have to be counted with the tokens.  A token   *)
(* or an entry comes with a task that registers; a task that pends takes a *)
(* token or, if there is none, leaves at most the entry; and a wake-up     *)
(* turns an entry into a token.                                            *)
(***************************************************************************)
EXTENDS SocketWait, FiniteSetTheorems, WellFoundedInduction, TLAPS

Places == {"idle", "lock", "blocked", "test", "pend", "wait", "expired", "clear", "delay",
           "relock", "reblocked"}

\* A task inside a call has an event, and one inside tcp_sleep has taken an entry.
Types ==
    /\ TypeOK
    /\ event \in [Tasks -> AllEvents \cup {None}]
    /\ \A t \in Tasks : /\ pc[t] # "idle" => event[t] \in Events[t]
                        /\ pc[t] \in {"pend", "wait", "expired", "clear"} => i[t] \in Slots

\* What an entry in use may still become: one token.
Entry(s) == IF soc_event[s] = None THEN 0 ELSE 1

\* Tokens and entries are paid for by the tasks that are about to wait, except for one.
Tokens == \A s \in Slots : semaphore[s] + Entry(s) <= Cardinality(Pending(s)) + 1

\* Whoever looks at the sockets has the lock: a task that tests, or the stack with an event.
Lock ==
    /\ \A t \in Tasks : pc[t] = "test" => NET_RESID = t
    /\ signal # None => NET_RESID \in Stack

-----------------------------------------------------------------------------
(* The operators *)

\* OS_EventTaskRdy finds a task whenever one waits.
LEMMA HighestPriorityIn ==
  ASSUME NEW S \in SUBSET Tasks, S # {}
  PROVE  HighestPriority(S) \in S
<1> DEFINE P == {Priority[t] : t \in S}
           R == {ss \in Nat \X Nat : ss[1] < ss[2]}
<1>1. P \subseteq Nat /\ P # {}
  BY WaitAssumption DEF WaitAssumption
<1>2. IsWellFoundedOn(R, Nat)
  BY NatLessThanWellFounded, Zenon DEF OpToRel
<1>3. PICK p \in P : \A q \in P : <<q, p>> \notin R
  <2> HIDE DEF P, R
  <2> QED BY <1>1, <1>2, WFMin
<1>4. \A q \in P : p <= q
  <2>1. \A m, n \in Nat : m < n => <<m, n>> \in R
    OBVIOUS
  <2>2. \A q \in P : ~ (q < p)
    <3> HIDE DEF P, R
    <3> QED BY <1>1, <1>3, <2>1
  <2> HIDE DEF P, R
  <2> QED BY <1>1, <2>2
<1>5. PICK t \in S : Priority[t] = p
  BY DEF P
<1>6. \A u \in S : Priority[t] <= Priority[u]
  BY <1>4, <1>5 DEF P
<1> QED BY <1>6 DEF HighestPriority

\* The lock goes to a task, to the stack or to nobody.
LEMMA UnlockType ==
  ASSUME NEW by, UNLOCK_NET_RESOURCE(by)
  PROVE  NET_RESID' \in Tasks \cup Stack \cup {None}
BY HighestPriorityIn DEF UNLOCK_NET_RESOURCE, Blocked

\* The tasks about to wait are finitely many.
LEMMA PendingFinite ==
  ASSUME NEW s
  PROVE  IsFiniteSet(Pending(s)) /\ Cardinality(Pending(s)) \in Nat
<1>1. Pending(s) \subseteq Tasks
  BY DEF Pending
<1> QED BY <1>1, WaitAssumption, FS_Subset, FS_CardinalityType DEF WaitAssumption

\* And in the next state.
LEMMA PendingFiniteNext ==
  ASSUME NEW s
  PROVE  IsFiniteSet(Pending(s)') /\ Cardinality(Pending(s)') \in Nat
<1>1. Pending(s)' \subseteq Tasks
  BY DEF Pending
<1> QED BY <1>1, WaitAssumption, FS_Subset, FS_CardinalityType DEF WaitAssumption

-----------------------------------------------------------------------------
(* Types *)

\* Every variable keeps its type.
LEMMA TypesStep == Types /\ [Next]_vars => Types'
<1> SUFFICES ASSUME Types, [Next]_vars PROVE Types'
  OBVIOUS
<1> USE DEF Types, TypeOK
<1>1. ASSUME NEW t \in Tasks, Call(t) PROVE Types'
  <2>1. PICK e \in Events[t] : event' = [event EXCEPT ![t] = e]
    BY <1>1 DEF Call
  <2>2. e \in AllEvents
    BY DEF AllEvents
  <2> QED BY <1>1, <2>1, <2>2 DEF Call, Goes
<1>2. ASSUME NEW t \in Tasks, LOCK_NET_RESOURCE(t) PROVE Types'
  BY <1>2 DEF LOCK_NET_RESOURCE, Goes
<1>3. ASSUME NEW t \in Tasks, Return(t) PROVE Types'
  <2>1. NET_RESID' \in Tasks \cup Stack \cup {None}
    BY <1>3, UnlockType DEF Return
  <2>2. event[t] \in AllEvents
    BY <1>3 DEF Return, Goes, AllEvents
  <2>3. avail' \in [AllEvents -> 0 .. MaxAvail]
    BY <1>3, <2>2, WaitAssumption DEF Return, CanReturn, WaitAssumption
  <2> QED BY <1>3, <2>1, <2>3 DEF Return, Goes
<1>4. ASSUME NEW t \in Tasks, Register(t) PROVE Types'
  <2>1. NET_RESID' \in Tasks \cup Stack \cup {None}
    BY <1>4, UnlockType DEF Register
  <2>2. event[t] \in AllEvents
    BY <1>4 DEF Register, Goes, AllEvents
  <2>3. PICK s \in Slots, nonzero \in BOOLEAN :
           /\ soc_event' = [soc_event EXCEPT ![s] = event[t]]
           /\ i' = [i EXCEPT ![t] = s]
           /\ ctick' = [ctick EXCEPT ![s] = nonzero]
    BY <1>4 DEF Register, Free
  <2>4. ctick' \in [Slots -> BOOLEAN]
    BY <2>3
  <2>5. soc_event' \in [Slots -> AllEvents \cup {None}] /\ i' \in [Tasks -> Slots \cup {None}]
    BY <2>2, <2>3
  <2> QED BY <1>4, <2>1, <2>3, <2>4, <2>5 DEF Register, Goes
<1>5. ASSUME NEW t \in Tasks, Yield(t) PROVE Types'
  <2>1. NET_RESID' \in Tasks \cup Stack \cup {None}
    BY <1>5, UnlockType DEF Yield
  <2> QED BY <1>5, <2>1 DEF Yield, Goes
<1>6. ASSUME NEW t \in Tasks, Pend(t) PROVE Types'
  BY <1>6 DEF Pend, Goes
<1>7. ASSUME NEW t \in Tasks, TimedOut(t) PROVE Types'
  BY <1>7 DEF TimedOut, Goes
<1>8. ASSUME NEW t \in Tasks, Clear(t) PROVE Types'
  BY <1>8 DEF Clear, Goes
<1>9. ASSUME NEW t \in Tasks, OSTimeTick(t) PROVE Types'
  BY <1>9 DEF OSTimeTick, Expires
<1>10. ASSUME NEW e \in AllEvents, Deliver(e) PROVE Types'
  <2>1. avail' \in [AllEvents -> 0 .. MaxAvail]
    BY <1>10, WaitAssumption DEF Deliver, WaitAssumption
  <2> QED BY <1>10, <2>1 DEF Deliver, Enter, Stack
<1>11. ASSUME Wake PROVE Types'
  <2>1. NET_RESID' \in Tasks \cup Stack \cup {None}
    BY <1>11, UnlockType DEF Wake
  <2>2. /\ pc' \in [Tasks -> Places]
        /\ \A t \in Tasks : pc'[t] \in {pc[t], "relock"}
        /\ \A t \in Tasks : pc[t] = "idle" => pc'[t] = "idle"
    <3>1. CASE UNCHANGED pc
      BY <3>1 DEF Places
    <3>2. CASE pc' = [t \in Tasks |->
                        IF \E s \in Signalled : Waiting(s) # {} /\ t = HighestPriority(Waiting(s))
                        THEN "relock" ELSE pc[t]]
      <4>1. ASSUME NEW t \in Tasks, NEW s, Waiting(s) # {}, t = HighestPriority(Waiting(s))
            PROVE  pc[t] # "idle"
        <5>1. Waiting(s) \in SUBSET Tasks
          BY DEF Waiting
        <5> QED BY <4>1, <5>1, HighestPriorityIn DEF Waiting
      <4>2. pc' \in [Tasks -> Places] /\ \A t \in Tasks : pc'[t] \in {pc[t], "relock"}
        BY <3>2 DEF Places
      <4> QED BY <3>2, <4>1, <4>2
    <3> QED BY <1>11, <3>1, <3>2 DEF Wake
  <2>3. soc_event' \in [Slots -> AllEvents \cup {None}] /\ ctick' \in [Slots -> BOOLEAN]
    BY <1>11 DEF Wake
  <2>4. semaphore' \in [Slots -> Nat]
    BY <1>11 DEF Wake
  <2> QED BY <1>11, <2>1, <2>2, <2>3, <2>4 DEF Wake, Places
<1>12. CASE UNCHANGED vars
  BY <1>12 DEF vars
<1>13. ASSUME tcp_slowtimo PROVE Types'
  BY <1>13, WaitAssumption DEF tcp_slowtimo, Enter, Stack, WaitAssumption
<1> QED BY <1>1, <1>2, <1>3, <1>4, <1>5, <1>6, <1>7, <1>8, <1>9, <1>10, <1>11, <1>12, <1>13
        DEF Next, tcp_sleep

\* Initially every variable has its type.
LEMMA TypesInit == Init => Types
BY WaitAssumption DEF Init, Types, TypeOK, WaitAssumption

\* The lock, the table and the tasks keep their types, whatever is interrupted.
THEOREM TypesHold == Spec => []TypeOK
<1>1. Types => TypeOK
  BY DEF Types
<1> QED BY <1>1, TypesInit, TypesStep, PTL DEF Spec

-----------------------------------------------------------------------------
(* The tokens *)

\* A step that leaves the tokens and the tasks about to wait alone, and adds no entry.
LEMMA TokensKept ==
  ASSUME Types, Tokens, semaphore' = semaphore,
         \A s \in Slots : soc_event'[s] \in {soc_event[s], None},
         \A s \in Slots : Pending(s) \subseteq Pending(s)'
  PROVE  Tokens'
<1> SUFFICES ASSUME NEW s \in Slots
             PROVE  semaphore'[s] + Entry(s)' <= Cardinality(Pending(s)') + 1
  BY DEF Tokens
<1>1. Cardinality(Pending(s)) <= Cardinality(Pending(s)')
  BY PendingFiniteNext, FS_Subset
<1>2. semaphore[s] \in Nat /\ Entry(s) \in {0, 1} /\ Entry(s)' \in {0, 1} /\ Entry(s)' <= Entry(s)
  BY DEF Types, TypeOK, Entry
<1>3. semaphore[s] + Entry(s) <= Cardinality(Pending(s)) + 1
  BY DEF Tokens
<1> HIDE DEF Entry
<1> QED BY <1>1, <1>2, <1>3, PendingFinite, PendingFiniteNext

\* A task that registers pays for its entry.
LEMMA TokensRegister ==
  ASSUME Types, Tokens, NEW t \in Tasks, Register(t)
  PROVE  Tokens'
<1>1. PICK r \in Free : /\ soc_event' = [soc_event EXCEPT ![r] = event[t]]
                        /\ i' = [i EXCEPT ![t] = r]
  BY DEF Register
<1>2. pc[t] = "test" /\ pc' = [pc EXCEPT ![t] = "pend"] /\ semaphore' = semaphore
  BY DEF Register, Goes
<1> SUFFICES ASSUME NEW s \in Slots
             PROVE  semaphore'[s] + Entry(s)' <= Cardinality(Pending(s)') + 1
  BY DEF Tokens
<1>3. semaphore[s] \in Nat /\ Entry(s) \in {0, 1} /\ Entry(s)' \in {0, 1}
  BY DEF Types, TypeOK, Entry
<1>4. semaphore[s] + Entry(s) <= Cardinality(Pending(s)) + 1
  BY DEF Tokens
<1>5. CASE s = r
  <2>1. Entry(s) = 0
    BY <1>5 DEF Free, Entry
  <2>2. Pending(s)' = Pending(s) \cup {t} /\ t \notin Pending(s)
    BY <1>1, <1>2, <1>5 DEF Pending, Types, TypeOK
  <2>3. Cardinality(Pending(s)') = Cardinality(Pending(s)) + 1
    BY <2>2, PendingFinite, FS_AddElement
  <2> QED BY <1>2, <1>3, <1>4, <2>1, <2>3, PendingFinite
<1>6. CASE s # r
  <2>1. Entry(s)' = Entry(s)
    BY <1>1, <1>6 DEF Free, Entry, Types, TypeOK
  <2>2. Pending(s)' = Pending(s)
    BY <1>1, <1>2, <1>6 DEF Pending, Types, TypeOK
  <2> QED BY <1>2, <1>3, <1>4, <2>1, <2>2
<1> QED BY <1>5, <1>6

\* A task that pends takes a token away, or there is none.
LEMMA TokensPend ==
  ASSUME Types, Tokens, NEW t \in Tasks, Pend(t)
  PROVE  Tokens'
<1>1. pc[t] = "pend" /\ pc'[t] # "pend" /\ \A u \in Tasks \ {t} : pc'[u] = pc[u]
  BY DEF Pend, Goes, Types, TypeOK
<1>2. i' = i /\ soc_event' = soc_event /\ i[t] \in Slots
  BY <1>1 DEF Pend, Types
<1>3. \/ semaphore[i[t]] > 0 /\ semaphore' = [semaphore EXCEPT ![i[t]] = @ - 1]
      \/ semaphore[i[t]] = 0 /\ semaphore' = semaphore
  BY DEF Pend
<1> SUFFICES ASSUME NEW s \in Slots
             PROVE  semaphore'[s] + Entry(s)' <= Cardinality(Pending(s)') + 1
  BY DEF Tokens
<1>4. semaphore[s] \in Nat /\ Entry(s) \in {0, 1} /\ Entry(s)' = Entry(s)
  BY <1>2 DEF Types, TypeOK, Entry
<1>5. semaphore[s] + Entry(s) <= Cardinality(Pending(s)) + 1
  BY DEF Tokens
<1>6. CASE s = i[t]
  <2>1. Pending(s)' = Pending(s) \ {t} /\ t \in Pending(s)
    BY <1>1, <1>2, <1>6 DEF Pending
  <2>2. Cardinality(Pending(s)') = Cardinality(Pending(s)) - 1
    BY <2>1, PendingFinite, FS_RemoveElement
  <2>3. CASE semaphore[s] > 0
    <3>1. semaphore'[s] = semaphore[s] - 1
      BY <1>2, <1>3, <1>6, <2>3 DEF Types, TypeOK
    <3> QED BY <1>4, <1>5, <2>2, <3>1, PendingFinite
  <2>4. CASE ~ (semaphore[s] > 0)
    <3>1. semaphore'[s] = 0
      BY <1>3, <1>4, <1>6, <2>4
    <3> QED BY <1>4, <3>1, PendingFiniteNext
  <2> QED BY <2>3, <2>4
<1>7. CASE s # i[t]
  <2>1. semaphore'[s] = semaphore[s]
    BY <1>2, <1>3, <1>7 DEF Types, TypeOK
  <2>2. Pending(s)' = Pending(s)
    BY <1>1, <1>2, <1>7 DEF Pending
  <2> QED BY <1>4, <1>5, <2>1, <2>2
<1> QED BY <1>6, <1>7

\* tcp_wakeup turns an entry into a token.
LEMMA TokensWake ==
  ASSUME Types, Tokens, Wake
  PROVE  Tokens'
<1> SUFFICES ASSUME NEW s \in Slots
             PROVE  semaphore'[s] + Entry(s)' <= Cardinality(Pending(s)') + 1
  BY DEF Tokens
<1>1. semaphore[s] \in Nat
  BY DEF Types, TypeOK
<1>2. semaphore[s] + Entry(s) <= Cardinality(Pending(s)) + 1
  BY DEF Tokens
<1>3. CASE UNCHANGED <<soc_event, ctick, semaphore, pc>>
  <2>1. Entry(s)' = Entry(s) /\ semaphore' = semaphore /\ Pending(s)' = Pending(s)
    BY <1>3 DEF Wake, Entry, Pending
  <2> QED BY <1>2, <2>1
<1>4. CASE ~ UNCHANGED <<soc_event, ctick, semaphore, pc>>
  <2>1. /\ soc_event' = [r \in Slots |-> IF Cleared(r) THEN None ELSE soc_event[r]]
        /\ semaphore' = [r \in Slots |-> IF r \in Signalled /\ Waiting(r) = {}
                                         THEN semaphore[r] + 1 ELSE semaphore[r]]
        /\ pc' = [t \in Tasks |->
                    IF \E r \in Signalled : Waiting(r) # {} /\ t = HighestPriority(Waiting(r))
                    THEN "relock" ELSE pc[t]]
        /\ i' = i /\ signal # None
    BY <1>4 DEF Wake
  <2>2. ASSUME NEW t \in Tasks, NEW r, Waiting(r) # {}, t = HighestPriority(Waiting(r))
        PROVE  pc[t] # "pend"
    <3>1. Waiting(r) \in SUBSET Tasks
      BY DEF Waiting
    <3> QED BY <2>2, <3>1, HighestPriorityIn DEF Waiting
  <2>3. \A t \in Tasks : pc'[t] = "pend" <=> pc[t] = "pend"
    BY <2>1, <2>2
  <2>4. Pending(s)' = Pending(s)
    BY <2>1, <2>3 DEF Pending
  <2>5. CASE s \in Signalled
    <3>1. Entry(s) = 1 /\ Entry(s)' = 0
      BY <2>1, <2>5 DEF Signalled, Cleared, Entry
    <3>2. semaphore'[s] <= semaphore[s] + 1 /\ semaphore'[s] \in Nat
      BY <1>1, <2>1
    <3> QED BY <1>1, <1>2, <2>4, <3>1, <3>2, PendingFinite
  <2>6. CASE s \notin Signalled
    <3>1. Entry(s)' = Entry(s) /\ semaphore'[s] = semaphore[s]
      BY <2>1, <2>6 DEF Cleared, Entry
    <3> QED BY <1>2, <2>4, <3>1
  <2> QED BY <2>5, <2>6
<1> QED BY <1>3, <1>4

\* No step makes a token or an entry that is not paid for.
LEMMA TokensStep == Types /\ Tokens /\ [Next]_vars => Tokens'
<1> SUFFICES ASSUME Types, Tokens, [Next]_vars PROVE Tokens'
  OBVIOUS
<1>1. ASSUME NEW t \in Tasks, Call(t) PROVE Tokens'
  <2>1. \A s \in Slots : Pending(s) \subseteq Pending(s)'
    BY <1>1 DEF Call, Goes, Pending, Types, TypeOK
  <2> QED BY <1>1, <2>1, TokensKept DEF Call
<1>2. ASSUME NEW t \in Tasks, LOCK_NET_RESOURCE(t) PROVE Tokens'
  <2>1. \A s \in Slots : Pending(s) \subseteq Pending(s)'
    BY <1>2 DEF LOCK_NET_RESOURCE, Goes, Pending, Types, TypeOK
  <2> QED BY <1>2, <2>1, TokensKept DEF LOCK_NET_RESOURCE
<1>3. ASSUME NEW t \in Tasks, Return(t) PROVE Tokens'
  <2>1. \A s \in Slots : Pending(s) \subseteq Pending(s)'
    BY <1>3 DEF Return, Goes, Pending, Types, TypeOK
  <2> QED BY <1>3, <2>1, TokensKept DEF Return
<1>4. ASSUME NEW t \in Tasks, Yield(t) PROVE Tokens'
  <2>1. \A s \in Slots : Pending(s) \subseteq Pending(s)'
    BY <1>4 DEF Yield, Goes, Pending, Types, TypeOK
  <2> QED BY <1>4, <2>1, TokensKept DEF Yield
<1>5. ASSUME NEW t \in Tasks, TimedOut(t) PROVE Tokens'
  <2>1. \A s \in Slots : Pending(s) \subseteq Pending(s)'
    BY <1>5 DEF TimedOut, Goes, Pending, Types, TypeOK
  <2> QED BY <1>5, <2>1, TokensKept DEF TimedOut
<1>6. ASSUME NEW t \in Tasks, Clear(t) PROVE Tokens'
  <2>1. \A s \in Slots : Pending(s) \subseteq Pending(s)'
    BY <1>6 DEF Clear, Goes, Pending, Types, TypeOK
  <2>2. \A s \in Slots : soc_event'[s] \in {soc_event[s], None}
    BY <1>6 DEF Clear, Types, TypeOK
  <2> QED BY <1>6, <2>1, <2>2, TokensKept DEF Clear
<1>7. ASSUME NEW t \in Tasks, OSTimeTick(t) PROVE Tokens'
  <2>1. \A s \in Slots : Pending(s) \subseteq Pending(s)'
    BY <1>7 DEF OSTimeTick, Expires, Pending, Types, TypeOK
  <2> QED BY <1>7, <2>1, TokensKept DEF OSTimeTick
<1>8. ASSUME NEW by, NEW e, Enter(by, e) PROVE Tokens'
  <2>1. \A s \in Slots : Pending(s) \subseteq Pending(s)'
    BY <1>8 DEF Enter, Pending
  <2> QED BY <1>8, <2>1, TokensKept DEF Enter
<1>9. CASE UNCHANGED vars
  <2>1. \A s \in Slots : Pending(s) \subseteq Pending(s)'
    BY <1>9 DEF vars, Pending
  <2> QED BY <1>9, <2>1, TokensKept DEF vars
<1> QED BY <1>1, <1>2, <1>3, <1>4, <1>5, <1>6, <1>7, <1>8, <1>9, TokensRegister, TokensPend, TokensWake
        DEF Next, tcp_sleep, Deliver, tcp_slowtimo

\* Initially there is neither a token nor an entry.
LEMMA TokensInit == Init => Tokens
<1> SUFFICES ASSUME Init, NEW s \in Slots
             PROVE  semaphore[s] + Entry(s) <= Cardinality(Pending(s)) + 1
  BY DEF Tokens
<1>1. semaphore[s] = 0 /\ Entry(s) = 0
  BY DEF Init, Entry
<1> QED BY <1>1, PendingFinite

\* For any number of tasks and any size of the table, the tokens that wake-ups leave behind for
\* tasks that have timed out do not pile up.
THEOREM TokensDoNotPileUp == Spec => []TokensBounded
<1>1. Types /\ Tokens => TokensBounded
  <2> SUFFICES ASSUME Types, Tokens, NEW s \in Slots
               PROVE  semaphore[s] <= Cardinality(Pending(s)) + 1
    BY DEF TokensBounded
  <2>1. semaphore[s] \in Nat /\ Entry(s) \in {0, 1}
    BY DEF Types, TypeOK, Entry
  <2>2. semaphore[s] + Entry(s) <= Cardinality(Pending(s)) + 1
    BY DEF Tokens
  <2> QED BY <2>1, <2>2, PendingFinite
<1> QED BY <1>1, TypesInit, TypesStep, TokensInit, TokensStep, PTL DEF Spec

-----------------------------------------------------------------------------
(* The lock *)

\* The lock changes hands only when its owner gives it up.
LEMMA LockStep == Types /\ Lock /\ [Next]_vars => Lock'
<1> SUFFICES ASSUME Types, Lock, [Next]_vars PROVE Lock'
  OBVIOUS
<1> USE DEF Types, TypeOK, Lock
<1>0. (\A t \in Tasks : t \notin Stack /\ t # None) /\ None \notin Stack /\ Stack = {tk_netmain, tk_nettick}
  BY WaitAssumption DEF WaitAssumption, Stack
<1>1. ASSUME NEW t \in Tasks, Call(t) PROVE Lock'
  BY <1>1 DEF Call, Goes
<1>2. ASSUME NEW t \in Tasks, LOCK_NET_RESOURCE(t) PROVE Lock'
  BY <1>0, <1>2 DEF LOCK_NET_RESOURCE, Goes
<1>3. ASSUME NEW t \in Tasks, pc[t] = "test", pc' = [pc EXCEPT ![t] = pc'[t]], pc'[t] # "test",
             signal' = signal
      PROVE  Lock'
  BY <1>0, <1>3
<1>4. ASSUME NEW t \in Tasks, Return(t) \/ Register(t) \/ Yield(t) PROVE Lock'
  <2>1. pc[t] = "test" /\ pc' = [pc EXCEPT ![t] = pc'[t]] /\ pc'[t] # "test" /\ signal' = signal
    BY <1>4 DEF Return, Register, Yield, Goes
  <2> QED BY <1>3, <2>1
<1>5. ASSUME NEW t \in Tasks, Pend(t) PROVE Lock'
  BY <1>5 DEF Pend, Goes
<1>6. ASSUME NEW t \in Tasks, TimedOut(t) PROVE Lock'
  BY <1>6 DEF TimedOut, Goes
<1>7. ASSUME NEW t \in Tasks, Clear(t) PROVE Lock'
  BY <1>7 DEF Clear, Goes
<1>8. ASSUME NEW t \in Tasks, OSTimeTick(t) PROVE Lock'
  BY <1>8 DEF OSTimeTick, Expires
<1>9. ASSUME NEW by \in Stack, NEW e, Enter(by, e) PROVE Lock'
  BY <1>0, <1>9 DEF Enter
<1>10. ASSUME Wake PROVE Lock'
  <2>1. \A t \in Tasks : pc[t] # "test"
    BY <1>0, <1>10 DEF Wake
  <2>2. \A t \in Tasks : pc'[t] # "test"
    BY <1>10, <2>1 DEF Wake
  <2> QED BY <1>10, <2>2 DEF Wake
<1>11. CASE UNCHANGED vars
  BY <1>11 DEF vars
<1> QED BY <1>0, <1>1, <1>2, <1>4, <1>5, <1>6, <1>7, <1>8, <1>9, <1>10, <1>11
        DEF Next, tcp_sleep, Deliver, tcp_slowtimo

\* One at a time looks at the sockets: two tasks, or a task and the stack, are never both past
\* LOCK_NET_RESOURCE, however the lock is handed on.
THEOREM OneInside ==
  Spec => [](/\ \A t, u \in Tasks : pc[t] = "test" /\ pc[u] = "test" => t = u
             /\ signal # None => \A t \in Tasks : pc[t] # "test")
<1>1. Init => Lock
  BY DEF Init, Lock
<1>2. Lock => /\ \A t, u \in Tasks : pc[t] = "test" /\ pc[u] = "test" => t = u
              /\ signal # None => \A t \in Tasks : pc[t] # "test"
  BY WaitAssumption DEF Lock, WaitAssumption
<1> QED BY <1>1, <1>2, TypesInit, TypesStep, LockStep, PTL DEF Spec
=============================================================================
