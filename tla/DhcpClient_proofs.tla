------------------------- MODULE DhcpClient_proofs -------------------------
(***************************************************************************)
(* The safety of the DHCP client, for any servers, addresses, leases and   *)
(* timeouts, and any number of replies on their way.                       *)
(***************************************************************************)
EXTENDS DhcpClient, TLAPS

\* The smaller of two numbers.
LEMMA MinPair ==
    ASSUME NEW a \in Nat, NEW b \in Nat
    PROVE  Min({a, b}) \in Nat /\ Min({a, b}) <= a /\ Min({a, b}) <= b
<1>1. \E x \in {a, b} : \A y \in {a, b} : x <= y
    OBVIOUS
<1>2. Min({a, b}) \in {a, b} /\ \A y \in {a, b} : Min({a, b}) <= y
    BY <1>1 DEF Min
<1> QED BY <1>2

-----------------------------------------------------------------------------
(* Types *)

States == {"UNUSED", "INIT", "INITREBOOT", "REBOOTING", "SELECTING", "REQUESTING",
           "BOUND", "RENEWING", "REBINDING", "RESTARTING"}
Places == {"rest", "discovered", "sent", "asked", "retried", "restarting", "reset"}
Masks == {"none", "static", "leased"}
Nets == [addr : Addresses \cup {0}, mask : Masks]
Replies == [type : {"OFFER", "BOOTP", "ACK", "NAK"}, srv : Servers \cup {None},
            addr : Addresses \cup {0}, lease : Leases \cup {0}, fresh : BOOLEAN]

EntryTypes ==
    /\ state \in States
    /\ ipaddr \in Addresses \cup {0} /\ snmask \in Masks
    /\ srv_ipaddr \in Servers \cup {None}
    /\ lease \in Leases \cup {0, DHC_INFINITY} /\ age \in Nat
    /\ net \in Nets

TaskTypes ==
    /\ tries \in 0 .. DHC_MAX_TRIES /\ seen \in 0 .. DHC_MAX_TRIES
    /\ nettick \in Places /\ due \in BOOLEAN
    /\ setup \in {"start", "exit", "waiting", "ready"} /\ app \in {"waiting", "serving"}

QueueTypes ==
    /\ replies \in Seq(Replies) /\ Len(replies) <= MaxInFlight
    /\ \A i \in DOMAIN replies : replies[i].type = "BOOTP" => replies[i].addr \in Addresses
    /\ \A i \in DOMAIN replies : replies[i].type = "ACK" => replies[i].lease \in Leases

Types == EntryTypes /\ TaskTypes /\ QueueTypes

\* The configuration of the interface.
LEMMA NetParts ==
    ASSUME NEW a \in Addresses \cup {0}, NEW m \in Masks
    PROVE  [addr |-> a, mask |-> m] \in Nets /\ [addr |-> a, mask |-> m].addr = a
  BY DEF Nets

\* What a reply is made of, and what is left of it when it is of an old transaction.
LEMMA ReplyParts ==
    ASSUME NEW r \in Replies
    PROVE  /\ r.type \in {"OFFER", "BOOTP", "ACK", "NAK"} /\ r.srv \in Servers \cup {None}
           /\ r.addr \in Addresses \cup {0} /\ r.lease \in Leases \cup {0} /\ r.fresh \in BOOLEAN
           /\ Stale(r) \in Replies /\ ~ Stale(r).fresh
           /\ Stale(r).type = r.type /\ Stale(r).addr = r.addr /\ Stale(r).lease = r.lease
  BY DEF Replies, Stale

\* The answers to a discover.
LEMMA DiscoverAnswers ==
    ASSUME NEW r \in DiscoverReplies
    PROVE  /\ r \in Replies /\ r.type \in {"OFFER", "BOOTP"}
           /\ r.type = "BOOTP" => r.addr \in Addresses
  BY DEF DiscoverReplies, Replies, Addresses

\* The answers to a request.
LEMMA RequestAnswers ==
    ASSUME NEW a \in Addresses \cup {0}, NEW to \in SUBSET (Servers \cup {None}),
           NEW r \in RequestReplies(a, to)
    PROVE  /\ r \in Replies /\ r.type \in {"ACK", "NAK"}
           /\ r.type = "ACK" => r.addr = a /\ r.lease \in Leases
<1>1. CASE \E s \in to, l \in Leases : r = Reply("ACK", s, a, l)
  <2>1. PICK s \in to, l \in Leases : r = Reply("ACK", s, a, l)
    BY <1>1
  <2>2. s \in Servers \cup {None}
    OBVIOUS
  <2> QED BY <2>1, <2>2 DEF Reply, Replies
<1>2. CASE \E s \in to : r = Reply("NAK", s, 0, 0)
  <2>1. PICK s \in to : r = Reply("NAK", s, 0, 0)
    BY <1>2
  <2>2. s \in Servers \cup {None}
    OBVIOUS
  <2> QED BY <2>1, <2>2 DEF Reply, Replies
<1> QED BY <1>1, <1>2 DEF RequestReplies

-----------------------------------------------------------------------------
(* The replies that are on their way *)

\* A reply is still there, at most of an older transaction.
Still(r, s) == r.type = s.type /\ r.addr = s.addr /\ r.lease = s.lease /\ (r.fresh => s.fresh)

\* Something was sent, and one of the answers may be on its way.
LEMMA SentQueue ==
    ASSUME QueueTypes, NEW x \in BOOLEAN, NEW A \in SUBSET Replies, Answered(Aged(x), A)
    PROVE  /\ replies' \in Seq(Replies) /\ Len(replies') <= MaxInFlight /\ Len(replies') \in Nat
           /\ \A i \in DOMAIN replies' :
                 \/ i \in DOMAIN replies /\ Still(replies'[i], replies[i]) /\ (x => ~ replies'[i].fresh)
                 \/ i = Len(replies') /\ i = Len(replies) + 1 /\ replies'[i] \in A
<1> DEFINE q == Aged(x)
<1>1. /\ replies \in Seq(Replies) /\ Len(replies) \in Nat /\ DOMAIN replies = 1 .. Len(replies)
      /\ Len(replies) <= MaxInFlight /\ \A i \in DOMAIN replies : replies[i] \in Replies
    BY DEF QueueTypes
<1>2. q \in Seq(Replies) /\ Len(q) = Len(replies)
  <2>1. CASE x
    <3>1. \A i \in 1 .. Len(replies) : Stale(replies[i]) \in Replies
      BY <1>1, ReplyParts
    <3>2. q = [i \in 1 .. Len(replies) |-> Stale(replies[i])]
      BY <2>1 DEF Aged
    <3> HIDE DEF q
    <3> QED BY <1>1, <3>1, <3>2
  <2>2. CASE ~ x
    BY <1>1, <2>2 DEF Aged
  <2> QED BY <2>1, <2>2
<1>3. \A i \in 1 .. Len(replies) : Still(q[i], replies[i]) /\ (x => ~ q[i].fresh)
  <2> SUFFICES ASSUME NEW i \in 1 .. Len(replies) PROVE Still(q[i], replies[i]) /\ (x => ~ q[i].fresh)
    OBVIOUS
  <2>1. CASE x
    <3>1. q[i] = Stale(replies[i])
      BY <2>1 DEF Aged
    <3> HIDE DEF q
    <3> QED BY <1>1, <3>1, ReplyParts DEF Still
  <2>2. CASE ~ x
    BY <2>2 DEF Aged, Still
  <2> QED BY <2>1, <2>2
<1>4. \/ replies' = q
      \/ Len(q) < MaxInFlight /\ \E r \in A : replies' = Append(q, r)
    BY DEF Answered
<1> HIDE DEF q
<1>5. CASE replies' = q
    BY <1>1, <1>2, <1>3, <1>5
<1>6. CASE Len(q) < MaxInFlight /\ \E r \in A : replies' = Append(q, r)
  <2>1. PICK r \in A : replies' = Append(q, r)
    BY <1>6
  <2>2. replies' \in Seq(Replies) /\ Len(replies') = Len(q) + 1 /\ DOMAIN replies' = 1 .. Len(q) + 1
    BY <1>2, <2>1
  <2>3. Len(replies') <= MaxInFlight /\ Len(replies') \in Nat
    BY <1>1, <1>2, <1>6, <2>2, DhcpAssumption
  <2>4. \A i \in DOMAIN replies' :
            \/ i \in 1 .. Len(replies) /\ replies'[i] = q[i]
            \/ i = Len(replies) + 1 /\ replies'[i] = r
    BY <1>1, <1>2, <2>1, <2>2
  <2>5. \A i \in DOMAIN replies' :
            \/ i \in DOMAIN replies /\ Still(replies'[i], replies[i]) /\ (x => ~ replies'[i].fresh)
            \/ i = Len(replies') /\ i = Len(replies) + 1 /\ replies'[i] \in A
    BY <1>1, <1>2, <1>3, <2>1, <2>2, <2>4
  <2> QED BY <2>2, <2>3, <2>5
<1> QED BY <1>4, <1>5, <1>6

\* The first reply is taken.
LEMMA RestQueue ==
    ASSUME QueueTypes, replies # <<>>
    PROVE  /\ reply \in Replies /\ reply = replies[1] /\ 1 \in DOMAIN replies
           /\ Rest \in Seq(Replies) /\ Len(Rest) = Len(replies) - 1 /\ Len(replies) \in Nat
           /\ \A i \in DOMAIN Rest : i \in Nat /\ i + 1 \in DOMAIN replies /\ Rest[i] = replies[i + 1]
                                     /\ i + 1 > 1 /\ i <= Len(Rest)
  BY DEF QueueTypes, reply, Rest

-----------------------------------------------------------------------------
(* The invariant.  Replies arrive in order and every discover makes the offers before it
   old ones, so the offer that is accepted is the last reply on its way: what a server
   grants after it can only be what was asked for since.  A client that asks for an
   address has no offer and no BOOTP reply on its way, and every grant on its way is for
   that address. *)

\* The client sends discovers at most.
Quiet == state \in {"INIT", "SELECTING", "UNUSED", "RESTARTING"} \/ (state = "BOUND" /\ lease = DHC_INFINITY)

Asking == state \in {"REBOOTING", "REQUESTING", "BOUND", "RENEWING", "REBINDING"}

FreshOffer(r) == r.type = "OFFER" /\ r.fresh

Queue ==
    /\ \A i \in DOMAIN replies : FreshOffer(replies[i]) => i = Len(replies) /\ Quiet
    /\ \A i \in DOMAIN replies : replies[i].type = "BOOTP" =>
          Quiet /\ \A j \in DOMAIN replies : j > i => replies[j].type # "ACK"
    /\ Asking => \A i \in DOMAIN replies : replies[i].type = "ACK" => replies[i].addr = ipaddr

Control ==
    /\ Holding => ipaddr = granted /\ granted \in Addresses /\ (nettick # "reset" => net.addr = granted)
    /\ state = "REBOOTING" => ipaddr = net.addr /\ ipaddr \in Addresses
    /\ state = "REQUESTING" => ipaddr \in Addresses
    /\ setup = "start" => state = "UNUSED" /\ replies = <<>> /\ net.addr = Fallback
    /\ setup \in {"start", "exit"} => nettick = "rest" /\ ~ due
    /\ setup = "waiting" => state # "UNUSED"
    /\ nettick \in {"sent", "retried"} => state \notin {"RENEWING", "REBINDING"}
    /\ state \in {"RENEWING", "REBINDING"} => lease # DHC_INFINITY
    /\ nettick \in {"restarting", "reset"} => state \in {"RESTARTING", "INIT", "BOUND", "UNUSED"}

Grants == Types /\ Control /\ Queue

\* The initial state.
LEMMA InitGrants == Init => Grants
<1> SUFFICES ASSUME Init PROVE Grants
    OBVIOUS
<1>1. net \in Nets /\ net.addr = Fallback
  <2>1. Fallback \in Addresses \cup {0} /\ "static" \in Masks
    BY DEF Addresses, Masks
  <2> QED BY <2>1, NetParts DEF Init, Static
<1>2. EntryTypes
    BY <1>1 DEF Init, EntryTypes, States, Masks
<1>3. TaskTypes
  <2>1. 0 \in 0 .. DHC_MAX_TRIES
    BY DhcpAssumption
  <2> QED BY <2>1 DEF Init, TaskTypes, Places
<1>4. replies = <<>>
    BY DEF Init
<1>5. QueueTypes
  <2>1. <<>> \in Seq(Replies) /\ Len(<<>>) = 0 /\ DOMAIN (<<>>) = {}
    OBVIOUS
  <2> QED BY <1>4, <2>1, DhcpAssumption DEF QueueTypes
<1>6. Control
    BY <1>1, <1>4 DEF Init, Control, Holding
<1>7. Queue
    BY <1>4 DEF Queue
<1> QED BY <1>2, <1>3, <1>5, <1>6, <1>7 DEF Grants, Types

\* A step that sends nothing.
LEMMA QueueFewer ==
    ASSUME QueueTypes, Queue,
           UNCHANGED replies \/ (replies # <<>> /\ replies' = Rest),
           Quiet => Quiet',
           Asking' => \/ Asking /\ ipaddr' = ipaddr
                      \/ \A i \in DOMAIN replies' : replies'[i].type # "ACK"
    PROVE  QueueTypes' /\ Queue'
<1>1. CASE UNCHANGED replies
    BY <1>1 DEF QueueTypes, Queue
<1>2. CASE replies # <<>> /\ replies' = Rest
  <2>1. /\ Rest \in Seq(Replies) /\ Len(Rest) = Len(replies) - 1 /\ Len(replies) \in Nat
        /\ \A i \in DOMAIN Rest : i \in Nat /\ i + 1 \in DOMAIN replies /\ Rest[i] = replies[i + 1]
                                  /\ i + 1 > 1 /\ i <= Len(Rest)
    BY <1>2, RestQueue
  <2>2. Len(replies') <= MaxInFlight /\ Len(replies') \in Int
    BY <1>2, <2>1, DhcpAssumption DEF QueueTypes
  <2>3. QueueTypes'
    BY <1>2, <2>1, <2>2 DEF QueueTypes
  <2>4. \A i \in DOMAIN replies' : FreshOffer(replies'[i]) => i = Len(replies') /\ Quiet'
    <3> SUFFICES ASSUME NEW i \in DOMAIN Rest, FreshOffer(replies[i + 1]) PROVE i = Len(Rest) /\ Quiet'
      BY <1>2, <2>1
    <3>1. i + 1 = Len(replies) /\ Quiet
      BY <2>1 DEF Queue
    <3> QED BY <2>1, <3>1
  <2>5. \A i \in DOMAIN replies' : replies'[i].type = "BOOTP" =>
            Quiet' /\ \A j \in DOMAIN replies' : j > i => replies'[j].type # "ACK"
    <3> SUFFICES ASSUME NEW i \in DOMAIN Rest, replies[i + 1].type = "BOOTP"
                 PROVE  Quiet' /\ \A j \in DOMAIN Rest : j > i => replies[j + 1].type # "ACK"
      BY <1>2, <2>1
    <3>1. Quiet /\ \A j \in DOMAIN replies : j > i + 1 => replies[j].type # "ACK"
      BY <2>1 DEF Queue
    <3> QED BY <2>1, <3>1
  <2>6. Asking' => \A i \in DOMAIN replies' : replies'[i].type = "ACK" => replies'[i].addr = ipaddr'
    BY <1>2, <2>1 DEF Queue
  <2>7. Queue'
    BY <2>4, <2>5, <2>6 DEF Queue
  <2> QED BY <2>3, <2>7
<1> QED BY <1>1, <1>2

\* A discover is sent.
LEMMA QueueDiscover ==
    ASSUME QueueTypes, Queue, SendDiscover, state \in {"INIT", "SELECTING"}, state' = "SELECTING"
    PROVE  QueueTypes' /\ Queue'
<1>1. DiscoverReplies \in SUBSET Replies
    BY DiscoverAnswers
<1>2. Answered(Aged(TRUE), DiscoverReplies)
    BY DEF SendDiscover
<1>3. /\ replies' \in Seq(Replies) /\ Len(replies') <= MaxInFlight /\ Len(replies') \in Nat
      /\ \A i \in DOMAIN replies' :
            \/ i \in DOMAIN replies /\ Still(replies'[i], replies[i]) /\ ~ replies'[i].fresh
            \/ i = Len(replies') /\ i = Len(replies) + 1 /\ replies'[i] \in DiscoverReplies
    BY <1>1, <1>2, SentQueue
<1>4. QueueTypes'
    BY <1>3, DiscoverAnswers DEF QueueTypes, Still
<1>5. Quiet' /\ ~ Asking'
    BY DEF Quiet, Asking
<1>6. \A i \in DOMAIN replies' : FreshOffer(replies'[i]) => i = Len(replies')
    BY <1>3 DEF FreshOffer
<1>7. ASSUME NEW i \in DOMAIN replies', replies'[i].type = "BOOTP", NEW j \in DOMAIN replies', j > i,
             replies'[j].type = "ACK"
      PROVE  FALSE
  <2>1. j \in DOMAIN replies /\ replies[j].type = "ACK"
    BY <1>3, <1>7, DiscoverAnswers DEF Still
  <2>2. i \in DOMAIN replies /\ replies[i].type = "BOOTP"
    <3>1. j <= Len(replies) /\ i \in Nat /\ j \in Nat /\ Len(replies) \in Nat
      BY <1>3, <2>1 DEF QueueTypes
    <3>2. i # Len(replies) + 1
      BY <1>7, <3>1
    <3> QED BY <1>3, <1>7, <3>2 DEF Still
  <2> QED BY <1>7, <2>1, <2>2 DEF Queue
<1>8. Queue'
    BY <1>5, <1>6, <1>7 DEF Queue
<1> QED BY <1>4, <1>8

\* A request is sent, and every grant on its way is for the address that it asks for.
LEMMA QueueRequest ==
    ASSUME QueueTypes, NEW a \in Addresses \cup {0}, NEW to \in SUBSET (Servers \cup {None}),
           NEW x \in BOOLEAN, Answered(Aged(x), RequestReplies(a, to)), ipaddr' = a,
           \A i \in DOMAIN replies :
               /\ ~ FreshOffer(replies[i]) /\ replies[i].type # "BOOTP"
               /\ replies[i].type = "ACK" => replies[i].addr = a
    PROVE  QueueTypes' /\ Queue'
<1>1. RequestReplies(a, to) \in SUBSET Replies
    BY RequestAnswers
<1>2. /\ replies' \in Seq(Replies) /\ Len(replies') <= MaxInFlight /\ Len(replies') \in Nat
      /\ \A i \in DOMAIN replies' :
            \/ i \in DOMAIN replies /\ Still(replies'[i], replies[i])
            \/ replies'[i] \in RequestReplies(a, to)
    BY <1>1, SentQueue
<1>3. \A i \in DOMAIN replies' :
          /\ ~ FreshOffer(replies'[i]) /\ replies'[i].type # "BOOTP"
          /\ replies'[i].type = "ACK" => replies'[i].addr = a /\ replies'[i].lease \in Leases
    BY <1>2, RequestAnswers DEF QueueTypes, Still, FreshOffer
<1>4. QueueTypes'
    BY <1>2, <1>3 DEF QueueTypes
<1>5. Queue'
    BY <1>3 DEF Queue
<1> QED BY <1>4, <1>5

\* A client that asks has only grants of its address on their way.
LEMMA AskingQueue ==
    ASSUME Queue, Asking, ~ Quiet
    PROVE  \A i \in DOMAIN replies :
               /\ ~ FreshOffer(replies[i]) /\ replies[i].type # "BOOTP"
               /\ replies[i].type = "ACK" => replies[i].addr = ipaddr
  BY DEF Queue

-----------------------------------------------------------------------------
(* Every step keeps it *)

\* dhc_setup.
LEMMA SetupKeeps == ASSUME Grants, Setup PROVE Grants'
<1> USE DEF Grants, Types
<1>1. /\ setup = "start" /\ state = "UNUSED" /\ replies = <<>> /\ net.addr = Fallback
      /\ nettick = "rest" /\ ~ due
    BY DEF Setup, Control
<1>2. /\ ipaddr' = net.addr /\ snmask' = net.mask
      /\ UNCHANGED <<srv_ipaddr, lease, net, age, nettick, due, seen, app, granted>>
      /\ tries' = 0
      /\ \/ state' = "REBOOTING" /\ setup' = "waiting"
         \/ state' = "INITREBOOT" /\ setup' = "exit"
    BY DEF Setup, dhc_set_state
<1>3. net.addr \in Addresses \cup {0} /\ net.mask \in Masks /\ Fallback \in Addresses
    BY DEF EntryTypes, Nets, Addresses
<1>4. EntryTypes'
    BY <1>2, <1>3 DEF EntryTypes, States
<1>5. 0 \in 0 .. DHC_MAX_TRIES
    BY DhcpAssumption
<1>6. TaskTypes'
    BY <1>2, <1>5 DEF TaskTypes, Places
<1>7. QueueTypes' /\ Queue'
  <2>1. CASE NoMem
    <3>1. replies' = <<>>
      BY <1>1, <2>1 DEF NoMem
    <3> QED BY <1>1, <3>1 DEF QueueTypes, Queue
  <2>2. CASE SendRequest("INITREBOOT", net.addr, None, TRUE)
    <3>1. Answered(Aged(TRUE), RequestReplies(net.addr, Servers))
      BY <2>2 DEF SendRequest
    <3>2. Servers \in SUBSET (Servers \cup {None}) /\ TRUE \in BOOLEAN /\ DOMAIN replies = {}
      BY <1>1
    <3> QED BY <1>2, <1>3, <3>1, <3>2, QueueRequest
  <2> QED BY <2>1, <2>2 DEF Setup
<1>8. Control'
    BY <1>1, <1>2, <1>3 DEF Control, Holding
<1> QED BY <1>4, <1>6, <1>7, <1>8

\* The end of dhc_setup.
LEMMA SetupEndsKeeps == ASSUME Grants, SetupEnds PROVE Grants'
<1> USE DEF Grants, Types
<1>1. /\ setup = "waiting" /\ setup' = "ready"
      /\ UNCHANGED <<nettick, due, seen, app, replies>>
    BY DEF SetupEnds
<1>2. CASE dhc_alldone
  <2>1. UNCHANGED <<state, tries, ipaddr, snmask, srv_ipaddr, lease, net, age, granted>>
    BY <1>2 DEF SetupEnds, lease_vars
  <2>2. EntryTypes' /\ TaskTypes'
    BY <1>1, <2>1 DEF EntryTypes, TaskTypes, Places
  <2>3. Control'
    BY <1>1, <2>1 DEF Control, Holding
  <2>4. QueueTypes' /\ Queue'
    BY <1>1, <2>1, QueueFewer DEF Quiet, Asking
  <2> QED BY <2>2, <2>3, <2>4
<1>3. CASE ~ dhc_alldone
  <2>1. /\ state' = "UNUSED" /\ tries' = 0 /\ ipaddr' = 0 /\ snmask' = "none" /\ srv_ipaddr' = None
        /\ lease' = 0 /\ age' = 0 /\ net' = Restored
    BY <1>3 DEF SetupEnds, dhc_set_state
  <2>2. Fallback \in Addresses \cup {0} /\ net.mask \in Masks
    BY DEF EntryTypes, Nets, Addresses
  <2>3. net' \in Nets
    BY <2>1, <2>2, NetParts DEF Restored
  <2>4. 0 \in 0 .. DHC_MAX_TRIES
    BY DhcpAssumption
  <2>5. EntryTypes'
    BY <2>1, <2>3 DEF EntryTypes, States, Masks
  <2>6. TaskTypes'
    BY <1>1, <2>1, <2>4 DEF TaskTypes, Places
  <2>7. Control'
    BY <1>1, <2>1 DEF Control, Holding
  <2>8. QueueTypes' /\ Queue'
    BY <1>1, <2>1, QueueFewer DEF Quiet, Asking
  <2> QED BY <2>5, <2>6, <2>7, <2>8
<1> QED BY <1>2, <1>3

\* A reply sends the client back to INIT: a denial, or an offer that is not accepted.
LEMMA BackToInit ==
    ASSUME Grants, state' = "INIT", tries' = 0, setup \in {"waiting", "ready"},
           UNCHANGED <<lease, age, nettick, due, seen, setup, app>>,
           net' \in Nets, ipaddr' \in Addresses \cup {0}, snmask' \in Masks,
           srv_ipaddr' \in Servers \cup {None},
           UNCHANGED replies \/ (replies # <<>> /\ replies' = Rest)
    PROVE  Grants'
<1> USE DEF Grants, Types
<1>1. EntryTypes'
    BY DEF EntryTypes, States
<1>2. 0 \in 0 .. DHC_MAX_TRIES
    BY DhcpAssumption
<1>3. TaskTypes'
    BY <1>2 DEF TaskTypes, Places
<1>4. Control'
    BY DEF Control, Holding
<1>5. QueueTypes' /\ Queue'
    BY QueueFewer DEF Quiet, Asking
<1> QED BY <1>1, <1>3, <1>4, <1>5

\* The replies.
LEMMA UpcallKeeps == ASSUME Grants, dhc_upcall PROVE Grants'
<1> USE DEF Grants, Types
<1>1. replies # <<>> /\ setup \in {"waiting", "ready"}
    BY DEF dhc_upcall, Discard, RejectOffer, AcceptOffer, Bind, Denied, Unexpected, Taken, Upcall
<1>2. reply \in Replies /\ reply = replies[1] /\ 1 \in DOMAIN replies
    BY <1>1, RestQueue
<1>3. reply.addr \in Addresses \cup {0} /\ reply.srv \in Servers \cup {None}
    BY <1>2, ReplyParts
<1>4. UNCHANGED <<nettick, due, seen, setup, app>>
    BY DEF dhc_upcall, Discard, RejectOffer, AcceptOffer, Bind, Denied, Unexpected
<1>5. CASE Discard
  <2>1. /\ UNCHANGED <<state, tries, ipaddr, snmask, srv_ipaddr, lease, net, age, granted>>
        /\ replies' = Rest
    BY <1>5 DEF Discard, lease_vars
  <2>2. EntryTypes' /\ TaskTypes'
    BY <1>4, <2>1 DEF EntryTypes, TaskTypes, Places
  <2>3. Control'
    BY <1>1, <1>4, <2>1 DEF Control, Holding
  <2>4. QueueTypes' /\ Queue'
    BY <1>1, <2>1, QueueFewer DEF Quiet, Asking
  <2> QED BY <2>2, <2>3, <2>4
<1>6. CASE RejectOffer
  <2>1. /\ state' = "INIT" /\ tries' = 0 /\ replies' = Rest /\ srv_ipaddr' = reply.srv
        /\ ipaddr' \in {ipaddr, reply.addr} /\ snmask' \in {snmask, "leased"}
        /\ UNCHANGED <<lease, net, age>>
    BY <1>6 DEF RejectOffer, dhc_set_state
  <2>2. /\ net' \in Nets /\ ipaddr' \in Addresses \cup {0} /\ snmask' \in Masks
        /\ srv_ipaddr' \in Servers \cup {None}
    BY <1>3, <2>1 DEF EntryTypes, Masks
  <2> QED BY <1>1, <1>4, <2>1, <2>2, BackToInit
<1>7. CASE Denied \/ Unexpected
  <2>1. /\ state' = "INIT" /\ tries' = 0 /\ replies' = Rest
        /\ UNCHANGED <<ipaddr, snmask, srv_ipaddr, lease, net, age>>
    BY <1>7 DEF Denied, Unexpected, dhc_set_state, lease_vars
  <2>2. /\ net' \in Nets /\ ipaddr' \in Addresses \cup {0} /\ snmask' \in Masks
        /\ srv_ipaddr' \in Servers \cup {None}
    BY <2>1 DEF EntryTypes
  <2> QED BY <1>1, <1>4, <2>1, <2>2, BackToInit
<1>8. CASE AcceptOffer
  <2>1. /\ state' = "REQUESTING" /\ tries' = 0 /\ srv_ipaddr' = reply.srv /\ ipaddr' = reply.addr
        /\ snmask' = "leased" /\ reply.addr # 0 /\ FreshOffer(reply)
        /\ UNCHANGED <<lease, net, age>>
        /\ \/ replies' = Rest
           \/ \E r \in RequestReplies(reply.addr, {reply.srv}) : replies' = Append(Rest, r)
        /\ state = "SELECTING"
    <3>1. /\ reply.type = "OFFER" /\ ~ Ignored(reply) /\ ~ BadState
      BY <1>8 DEF AcceptOffer, Taken
    <3>2. state = "SELECTING"
      BY <3>1 DEF Ignored, BadState, EntryTypes, States
    <3> QED BY <1>8, <3>2 DEF AcceptOffer, dhc_set_state, FreshOffer
  <2>2. reply.addr \in Addresses
    BY <1>3, <2>1
  <2>3. EntryTypes'
    BY <1>3, <2>1 DEF EntryTypes, States, Masks
  <2>4. 0 \in 0 .. DHC_MAX_TRIES
    BY DhcpAssumption
  <2>5. TaskTypes'
    BY <1>4, <2>1, <2>4 DEF TaskTypes, Places
  <2>6. Control'
    BY <1>1, <1>4, <2>1, <2>2 DEF Control, Holding
  <2>7. Rest = <<>> /\ Len(replies) = 1
    <3>1. 1 = Len(replies)
      BY <1>2, <2>1 DEF Queue
    <3>2. Rest \in Seq(Replies) /\ Len(Rest) = 0
      BY <1>1, <3>1, RestQueue
    <3> QED BY <3>1, <3>2
  <2>8. QueueTypes' /\ Queue'
    <3>1. CASE replies' = Rest
      <4>1. replies' = <<>>
        BY <2>7, <3>1
      <4> QED BY <2>7, <4>1, DhcpAssumption DEF QueueTypes, Queue
    <3>2. ASSUME NEW r \in RequestReplies(reply.addr, {reply.srv}), replies' = Append(Rest, r)
          PROVE  QueueTypes' /\ Queue'
      <4>1. {reply.srv} \in SUBSET (Servers \cup {None})
        BY <1>3
      <4>2. /\ r \in Replies /\ r.type \in {"ACK", "NAK"}
            /\ r.type = "ACK" => r.addr = reply.addr /\ r.lease \in Leases
        BY <1>3, <4>1, RequestAnswers
      <4>3. replies' = <<r>>
        BY <2>7, <3>2
      <4>4. replies' \in Seq(Replies) /\ Len(replies') = 1 /\ DOMAIN replies' = {1} /\ replies'[1] = r
        BY <4>2, <4>3
      <4>5. QueueTypes'
        BY <2>7, <4>2, <4>4 DEF QueueTypes
      <4>6. Queue'
        BY <2>1, <4>2, <4>4 DEF Queue, FreshOffer
      <4> QED BY <4>5, <4>6
    <3> QED BY <2>1, <3>1, <3>2
  <2> QED BY <2>3, <2>5, <2>6, <2>8
<1>9. CASE Bind
  <2>0. reply.type \in {"ACK", "BOOTP"} /\ state # "UNUSED" /\ ~ Ignored(reply) /\ ~ BadState
    BY <1>9 DEF Bind, Taken, Ignored
  <2>1. /\ state' = "BOUND" /\ tries' = 0 /\ replies' = Rest /\ snmask' = "leased"
        /\ net' = [addr |-> ipaddr', mask |-> "leased"] /\ granted' = reply.addr
    BY <1>9 DEF Bind, dhc_set_state, dhc_setip
  <2>2. CASE reply.type = "BOOTP"
    <3>1. ipaddr' = reply.addr /\ lease' = DHC_INFINITY /\ UNCHANGED <<srv_ipaddr, age>>
      BY <1>9, <2>2 DEF Bind
    <3>2. reply.addr \in Addresses /\ ipaddr' \in Addresses \cup {0} /\ "leased" \in Masks
      BY <1>2, <2>2, <3>1 DEF QueueTypes, Masks
    <3>3. net' \in Nets /\ net'.addr = ipaddr'
      BY <2>1, <3>2, NetParts
    <3>4. EntryTypes'
      BY <2>1, <3>1, <3>2, <3>3 DEF EntryTypes, States, Masks
    <3>5. 0 \in 0 .. DHC_MAX_TRIES
      BY DhcpAssumption
    <3>6. TaskTypes'
      BY <1>4, <2>1, <3>5 DEF TaskTypes, Places
    <3>7. Control'
      BY <1>1, <1>4, <2>1, <3>1, <3>2, <3>3 DEF Control, Holding
    <3>8. \A i \in DOMAIN Rest : Rest[i].type # "ACK"
      <4>1. \A j \in DOMAIN replies : j > 1 => replies[j].type # "ACK"
        BY <1>2, <2>2 DEF Queue
      <4> QED BY <1>1, <4>1, RestQueue
    <3>9. Quiet'
      BY <2>1, <3>1 DEF Quiet
    <3>10. QueueTypes' /\ Queue'
      BY <1>1, <2>1, <3>8, <3>9, QueueFewer
    <3> QED BY <3>4, <3>6, <3>7, <3>10
  <2>3. CASE reply.type = "ACK"
    <3>1. /\ lease' = reply.lease /\ srv_ipaddr' = reply.srv /\ age' = 0 /\ ipaddr' = ipaddr
      BY <1>9, <2>3 DEF Bind
    <3>2. state \in {"REBOOTING", "REQUESTING", "RENEWING", "REBINDING"}
      BY <2>0, <2>3 DEF Ignored, BadState, EntryTypes, States
    <3>3. Asking /\ ~ Quiet /\ ipaddr \in Addresses
      BY <3>2 DEF Asking, Quiet, Control, Holding
    <3>4. reply.addr = ipaddr /\ reply.lease \in Leases
      BY <1>2, <2>3, <3>3 DEF Queue, QueueTypes
    <3>5. net' \in Nets /\ net'.addr = ipaddr'
      <4>1. "leased" \in Masks /\ ipaddr' \in Addresses \cup {0}
        BY <3>1, <3>3 DEF Masks
      <4> QED BY <2>1, <4>1, NetParts
    <3>6. EntryTypes'
      BY <1>3, <2>1, <3>1, <3>3, <3>4, <3>5 DEF EntryTypes, States, Masks
    <3>7. 0 \in 0 .. DHC_MAX_TRIES
      BY DhcpAssumption
    <3>8. TaskTypes'
      BY <1>4, <2>1, <3>7 DEF TaskTypes, Places
    <3>9. Control'
      BY <1>1, <1>4, <2>1, <3>1, <3>3, <3>4, <3>5 DEF Control, Holding
    <3>10. QueueTypes' /\ Queue'
      BY <1>1, <2>1, <3>1, <3>3, QueueFewer
    <3> QED BY <3>6, <3>8, <3>9, <3>10
  <2> QED BY <2>0, <2>2, <2>3
<1> QED BY <1>5, <1>6, <1>7, <1>8, <1>9 DEF dhc_upcall

\* tk_nettick starts to give the address up.
LEMMA RestartKeeps ==
    ASSUME Grants, Restart, setup \in {"waiting", "ready"},
           seen' \in 0 .. DHC_MAX_TRIES, due' \in BOOLEAN,
           UNCHANGED <<ipaddr, snmask, srv_ipaddr, lease, net, age, setup, app, replies>>
    PROVE  Grants'
<1> USE DEF Grants, Types
<1>1. state' = "RESTARTING" /\ tries' = 0 /\ nettick' = "restarting"
    BY DEF Restart, dhc_set_state
<1>2. 0 \in 0 .. DHC_MAX_TRIES
    BY DhcpAssumption
<1>3. EntryTypes'
    BY <1>1 DEF EntryTypes, States
<1>4. TaskTypes'
    BY <1>1, <1>2 DEF TaskTypes, Places
<1>5. Control'
    BY <1>1 DEF Control, Holding
<1>6. QueueTypes' /\ Queue'
    BY <1>1, QueueFewer DEF Quiet, Asking
<1> QED BY <1>3, <1>4, <1>5, <1>6

\* The address is cleared, and the client starts again; a reply may have come in between.
LEMMA RestartedKeeps == ASSUME Grants, dhc_resetip \/ Restarted PROVE Grants'
<1> USE DEF Grants, Types, lease_vars
<1>1. /\ setup \in {"waiting", "ready"}
      /\ UNCHANGED <<ipaddr, snmask, srv_ipaddr, lease, age, due, seen, setup, app, replies, granted>>
    BY DEF dhc_resetip, Restarted, Control, TaskTypes
<1>2. CASE dhc_resetip
  <2>1. /\ UNCHANGED <<state, tries>> /\ net' = Unset /\ nettick = "restarting" /\ nettick' = "reset"
    BY <1>2 DEF dhc_resetip
  <2>2. net' \in Nets
    <3>1. "none" \in Masks /\ 0 \in Addresses \cup {0}
      BY DEF Masks
    <3> QED BY <2>1, <3>1, NetParts DEF Unset
  <2>3. EntryTypes'
    BY <1>1, <2>1, <2>2 DEF EntryTypes
  <2>4. TaskTypes'
    BY <1>1, <2>1 DEF TaskTypes, Places
  <2>5. Control'
    BY <1>1, <2>1 DEF Control, Holding
  <2>6. QueueTypes' /\ Queue'
    BY <1>1, <2>1, QueueFewer DEF Quiet, Asking
  <2> QED BY <2>3, <2>4, <2>5, <2>6
<1>3. CASE Restarted
  <2>1. state' = "INIT" /\ tries' = 0 /\ nettick' = "rest" /\ UNCHANGED net
    BY <1>3 DEF Restarted, dhc_set_state
  <2>2. 0 \in 0 .. DHC_MAX_TRIES
    BY DhcpAssumption
  <2>3. EntryTypes'
    BY <1>1, <2>1 DEF EntryTypes, States
  <2>4. TaskTypes'
    BY <1>1, <2>1, <2>2 DEF TaskTypes, Places
  <2>5. Control'
    BY <1>1, <2>1 DEF Control, Holding
  <2>6. QueueTypes' /\ Queue'
    BY <1>1, <2>1, QueueFewer DEF Quiet, Asking
  <2> QED BY <2>3, <2>4, <2>5, <2>6
<1> QED BY <1>2, <1>3

\* tk_nettick asks for the address of the interface, or for the one that was offered.
LEMMA RequestKeeps ==
    ASSUME Grants, Asking, ~ Quiet, Asking', ~ Quiet', setup \in {"waiting", "ready"},
           nettick = "rest", ipaddr' = ipaddr, snmask' \in Masks,
           Holding <=> Holding', state = "REBOOTING" <=> state' = "REBOOTING",
           state = "REQUESTING" <=> state' = "REQUESTING",
           nettick' \in {"rest", "sent", "asked", "retried"}, tries' \in 0 .. DHC_MAX_TRIES,
           nettick' \in {"sent", "retried"} => state' \notin {"RENEWING", "REBINDING"},
           seen' \in 0 .. DHC_MAX_TRIES, due' \in BOOLEAN,
           UNCHANGED <<srv_ipaddr, lease, net, age, setup, app, granted>>,
           \/ UNCHANGED replies
           \/ \E st \in {"REBOOTING", "REQUESTING", "RENEWING", "REBINDING"}, x \in BOOLEAN :
                 /\ SendRequest(st, ipaddr, srv_ipaddr, x)
                 /\ st \in {"RENEWING", "REBINDING"} => Holding
    PROVE  Grants'
<1> USE DEF Grants, Types
<1>1. EntryTypes'
    BY DEF EntryTypes, Asking, States
<1>2. TaskTypes'
    BY DEF TaskTypes, Places
<1>3. Control'
    BY DEF Control, Holding, Quiet, Asking
<1>4. CASE UNCHANGED replies
  <2>1. QueueTypes' /\ Queue'
    BY <1>4, QueueFewer
  <2> QED BY <1>1, <1>2, <1>3, <2>1
<1>5. ASSUME NEW st \in {"REBOOTING", "REQUESTING", "RENEWING", "REBINDING"}, NEW x \in BOOLEAN,
             SendRequest(st, ipaddr, srv_ipaddr, x), st \in {"RENEWING", "REBINDING"} => Holding
      PROVE  Grants'
  <2> DEFINE to == IF st \in {"SELECTING", "REQUESTING", "RENEWING"} THEN {srv_ipaddr} ELSE Servers
  <2>1. st \in {"RENEWING", "REBINDING"} => net.addr = ipaddr
    BY <1>5 DEF Control
  <2>2. Answered(Aged(x), RequestReplies(ipaddr, to))
    BY <1>5, <2>1 DEF SendRequest
  <2>3. to \in SUBSET (Servers \cup {None}) /\ ipaddr \in Addresses \cup {0}
    BY DEF EntryTypes
  <2> HIDE DEF to
  <2>4. QueueTypes' /\ Queue'
    BY <2>2, <2>3, AskingQueue, QueueRequest
  <2> QED BY <1>1, <1>2, <1>3, <2>4
<1> QED BY <1>4, <1>5

\* tk_nettick looks for a server.
LEMMA DiscoverKeeps ==
    ASSUME Grants, SendDiscover, state \in {"INIT", "SELECTING"}, state' = "SELECTING",
           setup \in {"waiting", "ready"}, nettick' \in {"discovered", "sent"},
           tries' \in 0 .. DHC_MAX_TRIES, seen' \in 0 .. DHC_MAX_TRIES, due' \in BOOLEAN,
           UNCHANGED <<ipaddr, snmask, srv_ipaddr, lease, net, age, setup, app, granted>>
    PROVE  Grants'
<1> USE DEF Grants, Types
<1>1. EntryTypes'
    BY DEF EntryTypes, States
<1>2. TaskTypes'
    BY DEF TaskTypes, Places
<1>3. Control'
    BY DEF Control, Holding
<1> QED BY <1>1, <1>2, <1>3, QueueDiscover

\* Only the places of the tasks change.
LEMMA NothingSentKeeps ==
    ASSUME Grants, UNCHANGED <<state, ipaddr, snmask, srv_ipaddr, lease, net, granted, replies>>,
           TaskTypes', age' \in Nat, UNCHANGED setup, setup \notin {"start", "exit"},
           nettick' \in {"sent", "retried"} => state \notin {"RENEWING", "REBINDING"},
           (nettick' \in {"rest", "sent", "retried"} /\ nettick # "reset") \/ UNCHANGED nettick
    PROVE  Grants'
<1> USE DEF Grants, Types
<1>1. EntryTypes'
    BY DEF EntryTypes
<1>2. Control'
    BY DEF Control, Holding
<1>3. QueueTypes' /\ Queue'
    BY QueueFewer DEF Quiet, Asking
<1> QED BY <1>1, <1>2, <1>3

\* dhc_second, up to the packet.
LEMMA SecondKeeps ==
    ASSUME Grants, UNCHANGED <<waited, age, elapsed, setup, app, granted>>,
           SecondInit \/ SecondRetry \/ SecondBound \/ SecondRenewing \/ SecondRebinding \/ SecondUnused
    PROVE  Grants'
<1> USE DEF Second, lease_vars
<1>1. setup \in {"waiting", "ready"} /\ due' = FALSE /\ nettick = "rest"
  <2>1. due /\ due' = FALSE /\ nettick = "rest"
    BY DEF SecondInit, SecondRetry, SecondBound, SecondRenewing, SecondRebinding, SecondUnused
  <2> QED BY <2>1 DEF Grants, Types, TaskTypes, Control
<1>2. /\ tries \in 0 .. DHC_MAX_TRIES /\ seen \in 0 .. DHC_MAX_TRIES /\ 0 \in 0 .. DHC_MAX_TRIES
      /\ due' \in BOOLEAN
  <2>1. tries \in 0 .. DHC_MAX_TRIES /\ seen \in 0 .. DHC_MAX_TRIES /\ 0 \in 0 .. DHC_MAX_TRIES
    BY DhcpAssumption DEF Grants, Types, TaskTypes, Places
  <2>2. due' \in BOOLEAN
    BY <1>1
  <2> QED BY <2>1, <2>2
<1>3. ASSUME UNCHANGED <<state, tries, ipaddr, snmask, srv_ipaddr, lease, net, replies>>,
             nettick' \in {"rest", "retried"}, nettick' = "retried" => state \notin {"RENEWING", "REBINDING"},
             seen' \in 0 .. DHC_MAX_TRIES
      PROVE  Grants'
  <2>1. TaskTypes'
    BY <1>1, <1>2, <1>3 DEF Grants, Types, TaskTypes, Places
  <2>2. age' \in Nat
    BY DEF Grants, Types, EntryTypes
  <2> QED BY <1>1, <1>3, <2>1, <2>2, NothingSentKeeps
<1>4. CASE SecondInit
  <2>1. CASE NoMem /\ nettick' = "rest" /\ UNCHANGED <<state, tries>>
    BY <1>2, <1>3, <1>4, <2>1 DEF SecondInit, NoMem
  <2>2. CASE SendDiscover /\ dhc_set_state("SELECTING") /\ nettick' = "discovered"
    BY <1>1, <1>2, <1>4, <2>2, DiscoverKeeps DEF SecondInit, dhc_set_state
  <2> QED BY <1>4, <2>1, <2>2 DEF SecondInit
<1>5. CASE SecondRetry
  <2>1. /\ state \in {"SELECTING", "REBOOTING", "REQUESTING"} /\ seen' = Min({tries, DHC_MAX_TRIES})
        /\ UNCHANGED <<state, tries, srv_ipaddr, lease, net>>
    BY <1>5 DEF SecondRetry
  <2>2. seen' \in 0 .. DHC_MAX_TRIES
    <3>1. tries \in Nat /\ DHC_MAX_TRIES \in Nat
      BY <1>2, DhcpAssumption
    <3>2. Min({tries, DHC_MAX_TRIES}) \in Nat /\ Min({tries, DHC_MAX_TRIES}) <= DHC_MAX_TRIES
      BY <3>1, MinPair
    <3> QED BY <2>1, <3>1, <3>2
  <2>3. ASSUME UNCHANGED <<ipaddr, snmask, replies>>, nettick' = "retried" PROVE Grants'
    BY <1>3, <2>1, <2>2, <2>3
  <2>4. CASE state = "SELECTING"
    <3>1. \/ UNCHANGED <<ipaddr, snmask, replies>> /\ nettick' = "retried"
          \/ UNCHANGED <<ipaddr, snmask>> /\ SendDiscover /\ nettick' = "sent"
      BY <1>5, <2>4 DEF SecondRetry, NoMem
    <3> QED BY <1>1, <1>2, <2>1, <2>2, <2>3, <2>4, <3>1, DiscoverKeeps
  <2>5. CASE state = "REBOOTING"
    <3>0. ipaddr = net.addr /\ net.mask \in Masks /\ snmask \in Masks
      BY <2>5 DEF Grants, Control, Types, EntryTypes, Nets
    <3>1. \/ UNCHANGED <<ipaddr, snmask, replies>> /\ nettick' = "retried"
          \/ /\ ipaddr' = net.addr /\ snmask' = net.mask /\ nettick' \in {"sent", "retried"}
             /\ UNCHANGED replies \/ SendRequest("REBOOTING", net.addr, srv_ipaddr, TRUE)
      BY <1>5, <2>5 DEF SecondRetry, NoMem
    <3>2. Asking /\ ~ Quiet /\ Asking' /\ ~ Quiet' /\ ~ Holding /\ ~ Holding'
      BY <2>1, <2>5 DEF Asking, Quiet, Holding
    <3> QED BY <1>1, <1>2, <2>1, <2>2, <2>3, <2>5, <3>0, <3>1, <3>2, RequestKeeps
  <2>6. CASE state = "REQUESTING"
    <3>0. snmask \in Masks
      BY DEF Grants, Types, EntryTypes
    <3>1. \/ UNCHANGED <<ipaddr, snmask, replies>> /\ nettick' = "retried"
          \/ /\ UNCHANGED <<ipaddr, snmask>> /\ nettick' = "sent"
             /\ SendRequest("REQUESTING", ipaddr, srv_ipaddr, FALSE)
      BY <1>5, <2>6 DEF SecondRetry, NoMem
    <3>2. Asking /\ ~ Quiet /\ Asking' /\ ~ Quiet' /\ ~ Holding /\ ~ Holding'
      BY <2>1, <2>6 DEF Asking, Quiet, Holding
    <3> QED BY <1>1, <1>2, <2>1, <2>2, <2>3, <2>6, <3>0, <3>1, <3>2, RequestKeeps
  <2> QED BY <2>1, <2>4, <2>5, <2>6
<1>6. CASE SecondBound
  <2>1. state = "BOUND" /\ UNCHANGED <<srv_ipaddr, lease, net, seen>>
    BY <1>6 DEF SecondBound
  <2>2. CASE ~ RenewDue
    BY <1>2, <1>3, <1>6, <2>1, <2>2 DEF SecondBound
  <2>3. CASE RenewDue
    <3>1. ipaddr = net.addr /\ net.mask \in Masks
      BY <1>1, <2>1 DEF Grants, Control, Holding, Types, EntryTypes, Nets
    <3>2. /\ state' = "RENEWING" /\ tries' = 0 /\ ipaddr' = net.addr /\ snmask' = net.mask
          /\ nettick' \in {"asked", "rest"}
          /\ UNCHANGED replies \/ SendRequest("RENEWING", net.addr, srv_ipaddr, TRUE)
      BY <1>6, <2>3 DEF SecondBound, dhc_set_state, NoMem
    <3>3. Asking /\ ~ Quiet /\ Asking' /\ ~ Quiet' /\ Holding /\ Holding'
      BY <2>1, <2>3, <3>2 DEF Asking, Quiet, Holding, RenewDue
    <3> QED BY <1>1, <1>2, <2>1, <3>1, <3>2, <3>3, RequestKeeps
  <2> QED BY <2>2, <2>3
<1>7. ASSUME state \in {"RENEWING", "REBINDING"}, state' \in {"RENEWING", "REBINDING"},
             tries' \in {0, tries}, UNCHANGED <<ipaddr, snmask, srv_ipaddr, lease, net, seen>>,
             nettick' \in {"asked", "rest"},
             \/ UNCHANGED replies
             \/ \E st \in {"RENEWING", "REBINDING"}, x \in BOOLEAN : SendRequest(st, ipaddr, srv_ipaddr, x)
      PROVE  Grants'
  <2>1. Asking /\ ~ Quiet /\ Asking' /\ ~ Quiet' /\ Holding /\ Holding'
    BY <1>7 DEF Asking, Quiet, Holding
  <2>2. snmask \in Masks
    BY DEF Grants, Types, EntryTypes
  <2> QED BY <1>1, <1>2, <1>7, <2>1, <2>2, RequestKeeps
<1>8. CASE SecondRenewing
  <2>1. /\ state = "RENEWING" /\ state' \in {"RENEWING", "REBINDING"} /\ tries' \in {0, tries}
        /\ UNCHANGED <<ipaddr, snmask, srv_ipaddr, lease, net, seen>> /\ nettick' \in {"asked", "rest"}
        /\ \/ UNCHANGED replies
           \/ SendRequest("RENEWING", ipaddr, srv_ipaddr, FALSE)
           \/ SendRequest("REBINDING", ipaddr, srv_ipaddr, TRUE)
    BY <1>8 DEF SecondRenewing, dhc_set_state, NoMem
  <2> QED BY <1>7, <2>1
<1>9. CASE SecondRebinding
  <2>1. CASE LeaseOver
    <3>1. /\ Restart
          /\ UNCHANGED <<ipaddr, snmask, srv_ipaddr, lease, net, seen, replies>>
      BY <1>9, <2>1 DEF SecondRebinding
    <3> QED BY <1>1, <1>2, <3>1, RestartKeeps
  <2>2. CASE ~ LeaseOver
    <3>1. /\ state = "REBINDING" /\ state' = "REBINDING" /\ tries' = tries
          /\ UNCHANGED <<ipaddr, snmask, srv_ipaddr, lease, net, seen>> /\ nettick' \in {"asked", "rest"}
          /\ UNCHANGED replies \/ SendRequest("REBINDING", ipaddr, srv_ipaddr, FALSE)
      BY <1>9, <2>2 DEF SecondRebinding, NoMem
    <3> QED BY <1>7, <3>1
  <2> QED BY <2>1, <2>2
<1>10. CASE SecondUnused
    BY <1>2, <1>3, <1>10 DEF SecondUnused
<1> QED BY <1>4, <1>5, <1>6, <1>8, <1>9, <1>10

\* dhc_second, after the packet.
LEMMA AfterKeeps == ASSUME Grants, AfterSend \/ AfterRetries PROVE Grants'
<1> USE DEF lease_vars
<1>1. /\ setup \in {"waiting", "ready"}
      /\ UNCHANGED <<ipaddr, snmask, srv_ipaddr, lease, net, age, due, setup, app, replies, granted>>
    BY DEF AfterSend, AfterRetries, Grants, Control, Types, TaskTypes, Places
<1>2. /\ tries \in 0 .. DHC_MAX_TRIES /\ seen \in 0 .. DHC_MAX_TRIES /\ 0 \in 0 .. DHC_MAX_TRIES
    BY DhcpAssumption DEF Grants, Types, TaskTypes, Places
<1>3. due' \in BOOLEAN /\ age' \in Nat
    BY <1>1 DEF Grants, Types, TaskTypes, Places, EntryTypes
<1>4. CASE AfterSend
  <2>1. CASE nettick = "discovered"
    <3>1. state' = "SELECTING" /\ tries' = 0 /\ nettick' = "rest" /\ UNCHANGED <<net, seen>>
      BY <1>4, <2>1 DEF AfterSend, dhc_set_state
    <3>2. EntryTypes'
      BY <1>1, <3>1 DEF Grants, Types, EntryTypes, States
    <3>3. TaskTypes'
      BY <1>1, <1>2, <3>1 DEF Grants, Types, TaskTypes, Places
    <3>4. Control'
      BY <1>1, <3>1 DEF Grants, Control, Holding
    <3>5. QueueTypes' /\ Queue'
      BY <1>1, <3>1, QueueFewer DEF Grants, Types, Quiet, Asking
    <3> QED BY <3>2, <3>3, <3>4, <3>5 DEF Grants, Types
  <2>2. CASE nettick \in {"sent", "asked"}
    <3>1. /\ tries' = Min({tries + 1, DHC_MAX_TRIES}) /\ UNCHANGED <<state, net, seen>>
      BY <1>4, <2>2 DEF AfterSend, OneMoreTry
    <3>2. tries' \in 0 .. DHC_MAX_TRIES
      <4>1. tries + 1 \in Nat /\ DHC_MAX_TRIES \in Nat
        BY <1>2, DhcpAssumption
      <4>2. Min({tries + 1, DHC_MAX_TRIES}) \in Nat /\ Min({tries + 1, DHC_MAX_TRIES}) <= DHC_MAX_TRIES
        BY <4>1, MinPair
      <4> QED BY <3>1, <4>1, <4>2
    <3>3. (nettick' = "retried" /\ nettick = "sent") \/ nettick' = "rest"
      BY <1>4, <2>2 DEF AfterSend
    <3>4. TaskTypes'
      BY <1>1, <3>1, <3>2, <3>3 DEF Grants, Types, TaskTypes, Places
    <3>5. nettick' \in {"sent", "retried"} => state \notin {"RENEWING", "REBINDING"}
      BY <3>3 DEF Grants, Control
    <3> QED BY <1>1, <1>3, <2>2, <3>1, <3>3, <3>4, <3>5, NothingSentKeeps
  <2> QED BY <1>4, <2>1, <2>2 DEF AfterSend
<1>5. CASE AfterRetries
  <2>1. nettick = "retried" /\ seen' = 0
    BY <1>5 DEF AfterRetries
  <2>2. CASE Restart
    BY <1>1, <1>2, <1>3, <2>1, <2>2, RestartKeeps
  <2>3. CASE nettick' = "rest" /\ UNCHANGED <<state, tries>>
    <3>1. TaskTypes'
      BY <1>1, <1>2, <2>1, <2>3 DEF Grants, Types, TaskTypes, Places
    <3> QED BY <1>1, <1>3, <2>1, <2>3, <3>1, NothingSentKeeps
  <2> QED BY <1>5, <2>2, <2>3 DEF AfterRetries
<1> QED BY <1>4, <1>5

\* How the age of the lease grows.
LEMMA TickAge ==
    ASSUME Grants, Tick
    PROVE  age' \in Nat /\ (lease # DHC_INFINITY => age' <= age + 1)
<1>1. age \in Nat /\ age + 1 \in Nat /\ (lease # DHC_INFINITY => lease \in Nat)
    BY DhcpAssumption DEF Grants, Types, EntryTypes
<1> DEFINE b == IF lease = DHC_INFINITY THEN 0 ELSE lease + 3
<1>2. b \in Nat
    BY <1>1
<1>3. age' = Min({age + 1, b})
    BY DEF Tick
<1> HIDE DEF b
<1> QED BY <1>1, <1>2, <1>3, MinPair

\* Every step.
LEMMA GrantsKept == ASSUME Grants, [Next]_vars PROVE Grants'
<1> USE DEF lease_vars
<1>1. CASE Tick
  <2>1. /\ setup \in {"waiting", "ready"} /\ nettick = "rest" /\ due' = TRUE
        /\ UNCHANGED <<state, tries, ipaddr, snmask, srv_ipaddr, lease, net, nettick, seen, setup,
                       app, replies, granted>>
    BY <1>1 DEF Tick
  <2>2. due' \in BOOLEAN
    BY <2>1
  <2>3. TaskTypes'
    BY <2>1, <2>2 DEF Grants, Types, TaskTypes, Places
  <2>4. age' \in Nat
    BY <1>1, TickAge
  <2> QED BY <2>1, <2>3, <2>4, NothingSentKeeps
<1>2. CASE StartServers
  <2>1. /\ setup = "ready" /\ app' = "serving"
        /\ UNCHANGED <<state, tries, ipaddr, snmask, srv_ipaddr, lease, net, age, nettick, due, seen,
                       setup, replies, granted>>
    BY <1>2 DEF StartServers
  <2>2. TaskTypes' /\ age' \in Nat
    BY <2>1 DEF Grants, Types, TaskTypes, Places, EntryTypes
  <2>3. nettick' \in {"sent", "retried"} => state \notin {"RENEWING", "REBINDING"}
    BY <2>1 DEF Grants, Control
  <2> QED BY <2>1, <2>2, <2>3, NothingSentKeeps
<1>3. CASE UNCHANGED vars
  <2>1. UNCHANGED <<state, tries, ipaddr, snmask, srv_ipaddr, lease, net, age, nettick, due, seen,
                    setup, app, replies, granted>>
    BY <1>3 DEF vars
  <2>2. EntryTypes' /\ TaskTypes' /\ QueueTypes'
    BY <2>1 DEF Grants, Types, EntryTypes, TaskTypes, QueueTypes
  <2>3. Control'
    BY <2>1 DEF Grants, Control, Holding
  <2>4. Queue'
    BY <2>1 DEF Grants, Queue, Quiet, Asking
  <2> QED BY <2>2, <2>3, <2>4 DEF Grants, Types
<1>4. CASE dhc_second
    BY <1>4, SecondKeeps, AfterKeeps, RestartedKeeps DEF dhc_second
<1>5. CASE netmain
    BY <1>5, SetupKeeps, SetupEndsKeeps, UpcallKeeps DEF netmain
<1> QED BY <1>1, <1>2, <1>3, <1>4, <1>5 DEF Next

\* It holds in every state of the client.
LEMMA GrantsAlways == Spec => []Grants
<1>1. Init => Grants
    BY InitGrants
<1>2. Grants /\ [Next]_vars => Grants'
    BY GrantsKept
<1> QED BY <1>1, <1>2, PTL DEF Spec

\* The state keeps its types, and no more replies are on their way than the network holds.
THEOREM TypesHold == Spec => []TypeOK
<1>1. Grants => TypeOK
  <2> SUFFICES ASSUME Grants PROVE TypeOK
    OBVIOUS
  <2>1. net.addr \in Addresses \cup {0} /\ net.mask \in Masks
    BY DEF Grants, Types, EntryTypes, Nets
  <2> QED BY <2>1 DEF Grants, Types, EntryTypes, TaskTypes, QueueTypes, TypeOK, States, Places, Masks
<1> QED BY <1>1, GrantsAlways, PTL

\* The address in use is the one a server has granted, whatever replies are lost, late or
\* of old transactions.
THEOREM AddressIsGranted == Spec => []AcknowledgedAddress
<1>1. Grants => AcknowledgedAddress
    BY DEF Grants, Control, AcknowledgedAddress
<1> QED BY <1>1, GrantsAlways, PTL

\* When the stack is said to be ready the interface has an address, but for a restart that is
\* about to end.
THEOREM AddressWhenReady == Spec => ReadyWithAddress
<1>1. ASSUME Grants, [Next]_vars, setup # "ready", setup' = "ready", nettick # "reset"
      PROVE  net'.addr # 0
  <2>0. 0 \notin Addresses /\ Fallback \in Addresses
    BY DhcpAssumption DEF Addresses
  <2>1. SetupEnds
    BY <1>1 DEF Next, vars, netmain, Setup, dhc_upcall, Discard, RejectOffer, AcceptOffer, Bind, Denied,
               Unexpected, StartServers, dhc_second, AfterSend, AfterRetries, dhc_resetip, Restarted, Tick
  <2>2. CASE dhc_alldone
    <3>1. setup = "waiting" /\ UNCHANGED net
      BY <2>1, <2>2 DEF SetupEnds
    <3>2. Holding
      BY <1>1, <2>2, <3>1 DEF Grants, Control, dhc_alldone, Holding
    <3> QED BY <1>1, <2>0, <3>1, <3>2 DEF Grants, Control
  <2>3. CASE ~ dhc_alldone
    <3>1. net' = [addr |-> Fallback, mask |-> net.mask]
      BY <2>1, <2>3 DEF SetupEnds, Restored
    <3> QED BY <2>0, <3>1
  <2> QED BY <2>2, <2>3
<1>2. Grants /\ [Next]_vars =>
          [setup # "ready" /\ setup' = "ready" /\ nettick # "reset" => net'.addr # 0]_vars
    BY <1>1
<1> QED BY <1>2, GrantsAlways, PTL DEF Spec, ReadyWithAddress

\* While the client rebinds, the address is not given up before the lease has expired: the
\* retries of an earlier state do not reach it.
THEOREM KeptUntilExpiry == Spec => ExpiresWhenDue
<1>1. ASSUME Grants, [Next]_vars, state = "REBINDING",
             state' = "RESTARTING" \/ (net.addr # 0 /\ net'.addr = 0)
      PROVE  lease <= age
  <2>0. /\ 0 \notin Addresses /\ Fallback \in Addresses /\ ipaddr \in Addresses
        /\ net' # net \/ state' # state
    BY <1>1, DhcpAssumption DEF Addresses, Grants, Control, Holding
  <2>1. ~ AfterRetries /\ ~ dhc_resetip /\ ~ Restarted
    BY <1>1, <2>0 DEF AfterRetries, dhc_resetip, Restarted, Grants, Control
  <2>2. ~ SetupEnds
    <3>1. SUFFICES ASSUME SetupEnds PROVE FALSE
      OBVIOUS
    <3>2. net' = [addr |-> Fallback, mask |-> net.mask] /\ state' = "UNUSED"
      BY <1>1, <2>0, <3>1 DEF SetupEnds, Restored, dhc_set_state, dhc_alldone
    <3> QED BY <1>1, <2>0, <3>2
  <2>3. ~ Bind
    <3>1. SUFFICES ASSUME Bind PROVE FALSE
      OBVIOUS
    <3>2. state' = "BOUND"
      BY <3>1 DEF Bind, dhc_set_state
    <3>3. net'.addr \in Addresses /\ nettick' # "reset"
      <4>1. nettick # "reset" /\ UNCHANGED nettick
        BY <1>1, <3>1 DEF Bind, Grants, Control
      <4> QED BY <1>1, <3>2, <4>1, GrantsKept DEF Grants, Control, Holding
    <3> QED BY <1>1, <2>0, <3>2, <3>3
  <2>4. SecondRebinding
    BY <1>1, <2>0, <2>1, <2>2, <2>3
       DEF Next, vars, netmain, Setup, dhc_upcall, Discard, RejectOffer, AcceptOffer, Denied,
           Unexpected, BadState, dhc_set_state, StartServers, dhc_second, AfterSend, Tick, SecondInit,
           SecondRetry, SecondBound, SecondRenewing, SecondUnused, Second
  <2> QED BY <1>1, <2>0, <2>4 DEF SecondRebinding, LeaseOver
<1>2. Grants /\ [Next]_vars =>
          [state = "REBINDING" /\ (state' = "RESTARTING" \/ (net.addr # 0 /\ net'.addr = 0))
               => lease <= age]_vars
    BY <1>1
<1> QED BY <1>2, GrantsAlways, PTL DEF Spec, ExpiresWhenDue

-----------------------------------------------------------------------------
(* The lease.  Every second is followed by a dhc_second before the next, and the tests of
   BOUND, RENEWING and REBINDING come in this order, one in each second at most. *)

d == IF due THEN 1 ELSE 0

Ages ==
    lease # DHC_INFINITY =>
        /\ state = "BOUND" => age <= t1 + d
        /\ state = "RENEWING" => age <= t1 + 1 + d \/ age < t2 + d
        /\ state = "REBINDING" => age <= t1 + 2 + d \/ age <= t2 + d \/ age < lease + d

LeaseInv == Grants /\ Ages

\* The timers that are derived from a lease.
LEMMA Timers ==
    ASSUME NEW l \in Nat
    PROVE  /\ l \div 2 \in Nat /\ (l \div 8) * 7 \in Nat
           /\ (l \div 8) * 7 <= l /\ l \div 2 <= l /\ (l > 0 => l \div 2 < l)
  OBVIOUS

\* The timers of the lease that the client has.
LEMMA TimersNow ==
    ASSUME Grants, lease # DHC_INFINITY
    PROVE  /\ lease \in Nat /\ t1 \in Nat /\ t2 \in Nat /\ age \in Nat
           /\ t2 <= lease /\ t1 <= lease /\ (lease > 0 => t1 < lease)
<1>1. lease \in Nat /\ age \in Nat
    BY DhcpAssumption DEF Grants, Types, EntryTypes
<1> QED BY <1>1, Timers DEF t1, t2

\* A step that leaves the lease alone.
LEMMA AgesUnchanged ==
    ASSUME LeaseInv, UNCHANGED <<lease, age, due>>, UNCHANGED state \/ ~ Holding'
    PROVE  Ages'
  BY DEF LeaseInv, Ages, Holding, t1, t2, d

\* Every step keeps the ages.
LEMMA LeaseInvKept == ASSUME LeaseInv, [Next]_vars PROVE LeaseInv'
<1> USE DEF lease_vars
<1>0. Grants /\ Grants'
    BY GrantsKept DEF LeaseInv
<1>1. SUFFICES Ages'
    BY <1>0 DEF LeaseInv
<1>2. CASE UNCHANGED <<lease, age, due>> /\ (UNCHANGED state \/ ~ Holding')
    BY <1>2, AgesUnchanged
<1>3. SUFFICES ASSUME lease' # DHC_INFINITY, Holding'
               PROVE  /\ state' = "BOUND" => age' <= t1' + d'
                      /\ state' = "RENEWING" => age' <= t1' + 1 + d' \/ age' < t2' + d'
                      /\ state' = "REBINDING" => \/ age' <= t1' + 2 + d' \/ age' <= t2' + d'
                                                 \/ age' < lease' + d'
    BY DEF Ages, Holding
<1>4. CASE Bind
  <2>1. age' = 0 /\ state' = "BOUND"
    BY <1>3, <1>4 DEF Bind, dhc_set_state
  <2>2. t1' \in Nat
    <3>1. lease' \in Nat
      BY <1>0, <1>3, DhcpAssumption DEF Grants, Types, EntryTypes
    <3> QED BY <3>1, Timers DEF t1
  <2>3. d' \in Nat
    BY DEF d
  <2>4. \A m, n \in Nat : 0 <= m + n
    OBVIOUS
  <2>5. age' <= t1' + d'
    BY <2>1, <2>2, <2>3, <2>4
  <2> QED BY <2>1, <2>5
<1>5. CASE Tick
  <2>1. UNCHANGED <<state, lease>> /\ ~ due /\ due'
    BY <1>5 DEF Tick
  <2>2. lease # DHC_INFINITY /\ t1' = t1 /\ t2' = t2
    BY <1>3, <2>1 DEF t1, t2
  <2>3. age' \in Nat /\ age' <= age + 1
    BY <1>0, <1>5, <2>2, TickAge
  <2>4. d = 0 /\ d' = 1
    BY <2>1 DEF d
  <2>5. lease \in Nat /\ t1 \in Nat /\ t2 \in Nat /\ age \in Nat
    BY <1>0, <2>2, TimersNow
  <2>6. /\ state = "BOUND" => age <= t1
        /\ state = "RENEWING" => age <= t1 + 1 \/ age < t2
        /\ state = "REBINDING" => age <= t1 + 2 \/ age <= t2 \/ age < lease
    BY <2>2, <2>4, <2>5 DEF LeaseInv, Ages
  <2> QED BY <2>1, <2>2, <2>3, <2>4, <2>5, <2>6
<1>6. ASSUME due, ~ due', UNCHANGED <<lease, age>>, Holding,
             state = "BOUND" => \/ state' = "BOUND" /\ age <= t1
                                \/ state' = "RENEWING",
             state = "RENEWING" => \/ state' = "RENEWING" /\ age < t2
                                   \/ state' = "REBINDING",
             state = "REBINDING" => state' = "REBINDING" /\ age < lease
      PROVE  Ages'
  <2>1. t1' = t1 /\ t2' = t2 /\ lease # DHC_INFINITY
    BY <1>3, <1>6 DEF t1, t2
  <2>2. d = 1 /\ d' = 0
    BY <1>6 DEF d
  <2>3. lease \in Nat /\ t1 \in Nat /\ t2 \in Nat /\ age \in Nat
    BY <1>0, <2>1, TimersNow
  <2>4. /\ state = "BOUND" => age <= t1 + 1
        /\ state = "RENEWING" => age <= t1 + 2 \/ age <= t2
    BY <2>1, <2>2, <2>3 DEF LeaseInv, Ages
  <2> QED BY <1>6, <2>1, <2>2, <2>3, <2>4 DEF Ages, Holding
<1>7. CASE SecondBound /\ UNCHANGED age
  <2>1. state = "BOUND" /\ due /\ ~ due' /\ UNCHANGED lease
    BY <1>7 DEF SecondBound, Second
  <2>2. lease # DHC_INFINITY
    BY <1>3, <2>1
  <2>3. t1 \in Nat /\ age \in Nat
    BY <1>0, <2>2, TimersNow
  <2>4. (state' = "BOUND" /\ ~ (age > t1)) \/ state' = "RENEWING"
    BY <1>7, <2>1, <2>2 DEF SecondBound, dhc_set_state, RenewDue
  <2> QED BY <1>3, <1>6, <1>7, <2>1, <2>3, <2>4 DEF Holding, Ages
<1>8. CASE SecondRenewing /\ UNCHANGED age
  <2>1. state = "RENEWING" /\ due /\ ~ due' /\ UNCHANGED lease
    BY <1>8 DEF SecondRenewing, Second
  <2>2. lease # DHC_INFINITY
    BY <1>3, <2>1
  <2>3. t2 \in Nat /\ age \in Nat
    BY <1>0, <2>2, TimersNow
  <2>4. (state' = "RENEWING" /\ t2 > age) \/ state' = "REBINDING"
    BY <1>8, <2>1 DEF SecondRenewing, dhc_set_state
  <2> QED BY <1>3, <1>6, <1>8, <2>1, <2>3, <2>4 DEF Holding, Ages
<1>9. CASE SecondRebinding /\ UNCHANGED age
  <2>1. state = "REBINDING" /\ due /\ ~ due' /\ UNCHANGED lease
    BY <1>9 DEF SecondRebinding, Second
  <2>2. lease # DHC_INFINITY
    BY <1>3, <2>1
  <2>3. lease \in Nat /\ age \in Nat
    BY <1>0, <2>2, TimersNow
  <2>4. state' = "REBINDING" /\ ~ (lease <= age)
    BY <1>3, <1>9, <2>1 DEF SecondRebinding, Restart, dhc_set_state, LeaseOver, Holding
  <2> QED BY <1>3, <1>6, <1>9, <2>1, <2>3, <2>4 DEF Holding, Ages
<1>10. CASE SecondInit \/ SecondRetry \/ SecondUnused
  <2>1. ~ Holding'
    BY <1>10 DEF SecondInit, SecondRetry, SecondUnused, Second, dhc_set_state, Holding
  <2> QED BY <1>3, <2>1
<1>11. CASE Setup \/ SetupEnds \/ Discard \/ RejectOffer \/ AcceptOffer \/ Denied \/ Unexpected
            \/ StartServers \/ AfterSend \/ AfterRetries \/ dhc_resetip \/ Restarted \/ UNCHANGED vars
  <2>1. UNCHANGED state \/ ~ Holding'
    BY <1>11 DEF Setup, SetupEnds, Discard, RejectOffer, AcceptOffer, Denied, Unexpected, StartServers,
                 AfterSend, AfterRetries, dhc_resetip, Restarted, Restart, dhc_set_state, Holding, vars
  <2>2. UNCHANGED <<lease, age, due>> \/ ~ Holding'
    BY <1>11 DEF Setup, SetupEnds, Discard, RejectOffer, AcceptOffer, Denied, Unexpected, StartServers,
                 AfterSend, AfterRetries, dhc_resetip, Restarted, dhc_set_state, Holding, vars
  <2> QED BY <1>2, <1>3, <2>1, <2>2 DEF Ages
<1> QED BY <1>4, <1>5, <1>7, <1>8, <1>9, <1>10, <1>11
        DEF Next, netmain, dhc_upcall, dhc_second, Ages

\* The address is used at most a second beyond its lease, for every lease.
THEOREM LeaseNotOverrun == Spec => []LeaseRespected
<1>1. Init => LeaseInv
    BY InitGrants DEF LeaseInv, Init, Ages
<1>2. LeaseInv /\ [Next]_vars => LeaseInv'
    BY LeaseInvKept
<1>3. LeaseInv => LeaseRespected
  <2> SUFFICES ASSUME LeaseInv, Holding, ~ due, lease # DHC_INFINITY PROVE ~ (age > lease + 1 /\ age > 2)
    BY DEF LeaseRespected, AtRest, Overdue
  <2>1. /\ lease \in Nat /\ t1 \in Nat /\ t2 \in Nat /\ age \in Nat
        /\ t2 <= lease /\ t1 <= lease /\ (lease > 0 => t1 < lease)
    BY TimersNow DEF LeaseInv
  <2>2. d = 0
    BY DEF d
  <2>3. \/ age <= t1 \/ age <= t1 + 1 \/ age < t2 \/ age <= t1 + 2 \/ age <= t2 \/ age < lease
    BY <2>1, <2>2 DEF LeaseInv, Ages, Holding
  <2> QED BY <2>1, <2>3
<1> QED BY <1>1, <1>2, <1>3, PTL DEF Spec
=============================================================================
