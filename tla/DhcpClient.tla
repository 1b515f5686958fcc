----------------------------- MODULE DhcpClient -----------------------------
(***************************************************************************)
(* How the board gets its address: main.c and mac_ip_utils.c, dhc_setup of *)
(* dhcsetup.c and the client of dhcpclnt.c, until and after the servers of *)
(* the application start.                                                  *)
(*                                                                         *)
(* Two tasks work on the same dhc_states entry without a lock.  tk_netmain *)
(* runs dhc_setup and handles the replies, in one step each; tk_nettick    *)
(* runs dhc_second, and tk_netmain, whose priority is higher, may run      *)
(* while it is sending a packet, between its two tests, or while it gives  *)
(* the address up.                                                         *)
(*                                                                         *)
(* Time is counted in ages.  A mask stands for the subnet mask and the     *)
(* default gateway, a server for it and the relay its packets come through. *)
(***************************************************************************)
EXTENDS Naturals, Sequences, FiniteSets, FiniteSetsExt

CONSTANTS Servers,         \* the DHCP servers on the network
          Fallback,        \* 192.168.1.15, the address of get_ip_addr
          Pool,            \* the other addresses that servers have
          Leases,          \* the durations they give
          DHC_INFINITY,
          DHC_RETRY_TMO, DHC_MAX_TRIES,   \* 4 seconds and 4
          SETUP_TMO,       \* 130 seconds
          RENEW_MIN,       \* 60 seconds
          MaxInFlight,     \* bound: replies on their way
          None

Addresses == Pool \cup {Fallback}

ASSUME DhcpAssumption ==
    /\ 0 \notin Addresses
    /\ Leases \subseteq Nat \cup {DHC_INFINITY} /\ DHC_INFINITY \notin Nat
    /\ DHC_RETRY_TMO \in Nat /\ DHC_MAX_TRIES \in Nat \ {0}
    /\ SETUP_TMO \in Nat /\ RENEW_MIN \in Nat /\ MaxInFlight \in Nat

VARIABLES
    state, tries,            \* dhc_states[0]
    ipaddr, snmask, srv_ipaddr,
    lease,                   \* what t1, t2 and the expiry go by: that of the last ACK, or the
                             \* DHC_INFINITY that a BOOTP reply puts into t1
    net,                     \* the interface: n_ipaddr, and its mask
    waited, age, elapsed,    \* since last_tick, lease_start and, while dhc_setup waits, dhcp_started
    nettick, due, seen,      \* tk_nettick: place, whether its second has come, its local tries
    setup, app,              \* dhc_setup and init_task
    replies,                 \* on their way, in order; fresh: they carry the current xid
    granted                  \* history: the address that was granted last and not denied since

lease_vars == <<ipaddr, snmask, srv_ipaddr, lease>>
vars == <<state, tries, lease_vars, net, waited, age, elapsed, nettick, due, seen, setup, app,
          replies, granted>>

Static == [addr |-> Fallback, mask |-> "static"]
Unset == [addr |-> 0, mask |-> "none"]

Init ==
    /\ state = "UNUSED" /\ tries = 0
    /\ ipaddr = 0 /\ snmask = "none" /\ srv_ipaddr = None /\ lease = 0
    /\ net = Static
    /\ waited = 0 /\ age = 0 /\ elapsed = 0
    /\ nettick = "rest" /\ due = FALSE /\ seen = 0
    /\ setup = "start" /\ app = "waiting"
    /\ replies = <<>>
    /\ granted = None

-----------------------------------------------------------------------------
(* Sending.  The answers of the servers, if any, join the replies that are on their way. *)

Reply(type, s, addr, l) == [type |-> type, srv |-> s, addr |-> addr, lease |-> l, fresh |-> TRUE]

\* A server offers an address, or none, or answers as a plain BOOTP server.
DiscoverReplies ==
    [type : {"OFFER"}, srv : Servers, addr : Addresses \cup {0}, lease : {0}, fresh : {TRUE}]
    \cup [type : {"BOOTP"}, srv : Servers, addr : Pool, lease : {0}, fresh : {TRUE}]

\* The servers that a request reaches grant the address or deny it.
RequestReplies(addr, to) ==
    {Reply("ACK", s, addr, l) : s \in to, l \in Leases} \cup {Reply("NAK", s, 0, 0) : s \in to}

\* A new transaction makes every reply on its way one of an old transaction.
Stale(r) == [type |-> r.type, srv |-> r.srv, addr |-> r.addr, lease |-> r.lease, fresh |-> FALSE]

Aged(new_xid) == IF new_xid THEN [i \in 1 .. Len(replies) |-> Stale(replies[i])] ELSE replies

Answered(queue, answers) ==
    \/ replies' = queue
    \/ Len(queue) < MaxInFlight /\ \E r \in answers : replies' = Append(queue, r)

\* udp_alloc finds no buffer: nothing is sent.
NoMem == UNCHANGED replies

SendDiscover == Answered(Aged(TRUE), DiscoverReplies)

\* Only a request that follows an offer names its server, and only a renewal is unicast;
\* a renewal and a rebinding ask for the address of the interface.
SendRequest(st, addr, srv, new_xid) ==
    Answered(Aged(new_xid),
             RequestReplies(IF st \in {"RENEWING", "REBINDING"} THEN net.addr ELSE addr,
                            IF st \in {"SELECTING", "REQUESTING", "RENEWING"} THEN {srv} ELSE Servers))

dhc_set_state(st) == state' = st /\ tries' = 0

-----------------------------------------------------------------------------
(* dhc_setup, by tk_netmain *)

\* The client starts in INITREBOOT, since there is an address to save, and dhc_second
\* asks for that address.  Without a buffer the program exits.
Setup ==
    /\ setup = "start"
    /\ ipaddr' = net.addr /\ snmask' = net.mask
    /\ \/ /\ SendRequest("INITREBOOT", net.addr, None, TRUE)
          /\ dhc_set_state("REBOOTING")
          /\ setup' = "waiting"
       \/ /\ NoMem
          /\ dhc_set_state("INITREBOOT")
          /\ setup' = "exit"
    /\ waited' = 0 /\ elapsed' = 0
    /\ UNCHANGED <<srv_ipaddr, lease, net, age, nettick, due, seen, app, granted>>

dhc_alldone == state \in {"UNUSED", "BOUND"}

\* Mutant: there is no limit to the wait.
SetupTimedOutNever == FALSE

SetupTimedOut == elapsed >= SETUP_TMO

\* Mutant: the address is not put back.
RestoredNot == net

\* Only n_ipaddr is put back.
Restored == [addr |-> Fallback, mask |-> net.mask]

\* The wait ends: with an address, or dhc_halt clears the entry and the saved address is
\* put back.
SetupEnds ==
    /\ setup = "waiting" /\ (dhc_alldone \/ SetupTimedOut)
    /\ setup' = "ready"
    /\ \/ dhc_alldone /\ UNCHANGED <<state, tries, lease_vars, net, waited, age>>
       \/ /\ ~ dhc_alldone
          /\ dhc_set_state("UNUSED")
          /\ ipaddr' = 0 /\ snmask' = "none" /\ srv_ipaddr' = None /\ lease' = 0
          /\ waited' = 0 /\ age' = 0
          /\ net' = Restored
    /\ granted' = IF dhc_alldone THEN granted ELSE None
    /\ elapsed' = 0
    /\ UNCHANGED <<nettick, due, seen, app, replies>>

\* init_task sees iniche_net_ready and creates the tasks of the application.
StartServers ==
    /\ setup = "ready" /\ app = "waiting"
    /\ app' = "serving"
    /\ UNCHANGED <<state, tries, lease_vars, net, waited, age, elapsed, nettick, due, seen, setup,
                   replies, granted>>

-----------------------------------------------------------------------------
(* dhc_upcall, by tk_netmain: the first reply. *)

reply == Head(replies)
Rest == Tail(replies)

\* Mutant: an address that is there is kept.
dhc_setipOnce(addr) == IF net.addr = 0 THEN [addr |-> addr, mask |-> "leased"] ELSE net

dhc_setip(addr) == [addr |-> addr, mask |-> "leased"]

\* Nothing is done with the reply.
Ignored(r) ==
    \/ state \in {"UNUSED"}
    \/ /\ r.type # "BOOTP"
       /\ \/ state \in {"INIT", "INITREBOOT", "BOUND"}
          \/ state = "SELECTING" /\ r.type # "OFFER"
          \/ state \in {"REQUESTING", "RENEWING", "REBINDING"} /\ r.srv # srv_ipaddr
          \/ state \in {"REQUESTING", "RENEWING", "REBINDING", "REBOOTING"} /\ r.type = "OFFER"

Upcall == setup \in {"waiting", "ready"} /\ replies # <<>>

\* A state that no case of dhc_upcall names.
BadState == state = "RESTARTING" /\ reply.type # "BOOTP"

Taken == Upcall /\ ~ Ignored(reply) /\ ~ BadState

Discard ==
    /\ Upcall /\ Ignored(reply)
    /\ replies' = Rest
    /\ UNCHANGED <<state, tries, lease_vars, net, waited, age, elapsed, nettick, due, seen, setup,
                   app, granted>>

\* An offer of an older transaction, one without an address, which is declined, and one that
\* cannot be answered send the client back to INIT.
RejectOffer ==
    /\ Taken /\ reply.type = "OFFER"
    /\ srv_ipaddr' = reply.srv
    /\ \/ ~ reply.fresh /\ UNCHANGED <<ipaddr, snmask>>
       \/ reply.fresh /\ reply.addr = 0 /\ snmask' = "leased" /\ UNCHANGED ipaddr
       \/ /\ reply.fresh /\ reply.addr # 0
          /\ ipaddr' = reply.addr /\ snmask' = "leased"
    /\ dhc_set_state("INIT")
    /\ replies' = Rest
    /\ UNCHANGED <<lease, net, waited, age, elapsed, nettick, due, seen, setup, app, granted>>

\* dhc_rx_offer asks for the address that is offered.  The lease of the offer is stored too,
\* and overwritten by that of the ACK before anything reads it.
AcceptOffer ==
    /\ Taken /\ reply.type = "OFFER"
    /\ reply.fresh /\ reply.addr # 0
    /\ srv_ipaddr' = reply.srv
    /\ ipaddr' = reply.addr /\ snmask' = "leased"
    /\ \/ replies' = Rest
       \/ \E r \in RequestReplies(reply.addr, {reply.srv}) : replies' = Append(Rest, r)
    /\ waited' = 0
    /\ dhc_set_state("REQUESTING")
    /\ UNCHANGED <<lease, net, age, elapsed, nettick, due, seen, setup, app, granted>>

\* The address is granted; a BOOTP server grants it for ever.
Bind ==
    /\ Taken /\ reply.type \in {"ACK", "BOOTP"}
    /\ ipaddr' = IF reply.type = "BOOTP" THEN reply.addr ELSE ipaddr
    /\ lease' = IF reply.type = "BOOTP" THEN DHC_INFINITY ELSE reply.lease
    /\ srv_ipaddr' = IF reply.type = "BOOTP" THEN srv_ipaddr ELSE reply.srv
    /\ age' = IF reply.type = "BOOTP" THEN age ELSE 0
    /\ snmask' = "leased"
    /\ net' = dhc_setip(ipaddr')
    /\ dhc_set_state("BOUND")
    /\ granted' = reply.addr
    /\ replies' = Rest
    /\ UNCHANGED <<waited, elapsed, nettick, due, seen, setup, app>>

Denied ==
    /\ Taken /\ reply.type = "NAK"
    /\ dhc_set_state("INIT")
    /\ granted' = None
    /\ replies' = Rest
    /\ UNCHANGED <<lease_vars, net, waited, age, elapsed, nettick, due, seen, setup, app>>

\* In a bad state the client starts again.
Unexpected ==
    /\ Upcall /\ BadState
    /\ dhc_set_state("INIT")
    /\ replies' = Rest
    /\ UNCHANGED <<lease_vars, net, waited, age, elapsed, nettick, due, seen, setup, app, granted>>

dhc_upcall == Discard \/ RejectOffer \/ AcceptOffer \/ Bind \/ Denied \/ Unexpected

-----------------------------------------------------------------------------
(* dhc_second, by tk_nettick, up to the point where the packet is handed to the driver, or
   to the end when there is none to send. *)

\* The timers that dhc_upcall derives from the lease; BOUND is left only if it is finite.
t1 == lease \div 2
t2 == (lease \div 8) * 7

RenewDue == lease # DHC_INFINITY /\ age > t1

\* Half of the time between the last request and a deadline, and at least RENEW_MIN.
HalfTime(deadline) == Max({(deadline + waited - age) \div 2, RENEW_MIN})

\* dhc_second starts to give the address up; dhc_resetip and Restarted follow.
Restart == dhc_set_state("RESTARTING") /\ nettick' = "restarting"

Second(st) == nettick = "rest" /\ due /\ due' = FALSE /\ state = st

\* The tests of the retries, before and after sending.
RetryTime == DHC_RETRY_TMO * 2 ^ Min({tries, DHC_MAX_TRIES})

SecondInit ==
    /\ Second("INIT")
    /\ \/ SendDiscover /\ dhc_set_state("SELECTING") /\ nettick' = "discovered"
       \/ NoMem /\ nettick' = "rest" /\ UNCHANGED <<state, tries>>
    /\ UNCHANGED <<lease_vars, net, seen>>

\* dhc_reclaim copies the address of the interface.
SecondRetry ==
    /\ \E st \in {"SELECTING", "REBOOTING", "REQUESTING"} : Second(st)
    /\ seen' = Min({tries, DHC_MAX_TRIES})
    /\ \/ /\ waited <= RetryTime
          /\ nettick' = "retried"
          /\ UNCHANGED <<ipaddr, snmask, replies>>
       \/ /\ waited > RetryTime /\ state = "REBOOTING"
          /\ ipaddr' = net.addr /\ snmask' = net.mask
          /\ \/ SendRequest(state, net.addr, srv_ipaddr, TRUE) /\ nettick' = "sent"
             \/ NoMem /\ nettick' = "retried"
       \/ /\ waited > RetryTime /\ state # "REBOOTING"
          /\ \/ state = "SELECTING" /\ SendDiscover /\ nettick' = "sent"
             \/ state = "REQUESTING" /\ SendRequest(state, ipaddr, srv_ipaddr, FALSE) /\ nettick' = "sent"
             \/ NoMem /\ nettick' = "retried"
          /\ UNCHANGED <<ipaddr, snmask>>
    /\ UNCHANGED <<state, tries, srv_ipaddr, lease, net>>

SecondBound ==
    /\ Second("BOUND")
    /\ \/ /\ ~ RenewDue
          /\ nettick' = "rest"
          /\ UNCHANGED <<state, tries, ipaddr, snmask, replies>>
       \/ /\ RenewDue
          /\ dhc_set_state("RENEWING")
          /\ ipaddr' = net.addr /\ snmask' = net.mask
          /\ \/ SendRequest("RENEWING", net.addr, srv_ipaddr, TRUE) /\ nettick' = "asked"
             \/ NoMem /\ nettick' = "rest"
    /\ UNCHANGED <<srv_ipaddr, lease, net, seen>>

SecondRenewing ==
    /\ Second("RENEWING")
    /\ \/ /\ t2 > age /\ waited <= HalfTime(t2)
          /\ nettick' = "rest"
          /\ UNCHANGED <<state, tries, replies>>
       \/ /\ t2 > age /\ waited > HalfTime(t2)
          /\ \/ SendRequest("RENEWING", ipaddr, srv_ipaddr, FALSE) /\ nettick' = "asked"
             \/ NoMem /\ nettick' = "rest"
          /\ UNCHANGED <<state, tries>>
       \/ /\ t2 <= age
          /\ dhc_set_state("REBINDING")
          /\ \/ SendRequest("REBINDING", ipaddr, srv_ipaddr, TRUE) /\ nettick' = "asked"
             \/ NoMem /\ nettick' = "rest"
    /\ UNCHANGED <<lease_vars, net, seen>>

\* Mutant: the end of the lease is not looked at.
LeaseOverNever == FALSE

\* Mutant: the address is given up when the time to rebind comes.
LeaseOverEarly == t2 <= age

LeaseOver == lease <= age

SecondRebinding ==
    /\ Second("REBINDING")
    /\ \/ /\ ~ LeaseOver /\ waited <= HalfTime(lease)
          /\ nettick' = "rest"
          /\ UNCHANGED <<state, tries, replies>>
       \/ /\ ~ LeaseOver /\ waited > HalfTime(lease)
          /\ \/ SendRequest("REBINDING", ipaddr, srv_ipaddr, FALSE) /\ nettick' = "asked"
             \/ NoMem /\ nettick' = "rest"
          /\ UNCHANGED <<state, tries>>
       \/ /\ LeaseOver
          /\ Restart
          /\ UNCHANGED <<replies>>
    /\ UNCHANGED <<lease_vars, net, seen>>

SecondUnused ==
    /\ \E st \in {"UNUSED", "INITREBOOT"} : Second(st)
    /\ nettick' = "rest"
    /\ UNCHANGED <<state, tries, lease_vars, net, seen, replies>>

\* Beyond DHC_MAX_TRIES the number of tries makes no difference.
OneMoreTry == tries' = Min({tries + 1, DHC_MAX_TRIES})

\* The packet is sent: last_tick and tries are updated, and dhc_second goes on.
AfterSend ==
    /\ nettick \in {"discovered", "sent", "asked"}
    /\ waited' = 0
    /\ \/ nettick = "discovered" /\ dhc_set_state("SELECTING") /\ nettick' = "rest"
       \/ nettick = "sent" /\ OneMoreTry /\ nettick' = "retried" /\ UNCHANGED state
       \/ nettick = "asked" /\ OneMoreTry /\ nettick' = "rest" /\ UNCHANGED state
    /\ UNCHANGED <<lease_vars, net, age, elapsed, due, seen, setup, app, replies, granted>>

\* Enough retries: the address is given up.
AfterRetries ==
    /\ nettick = "retried"
    /\ seen' = 0
    /\ \/ seen = DHC_MAX_TRIES /\ state # "SELECTING" /\ Restart
       \/ /\ ~ (seen = DHC_MAX_TRIES /\ state # "SELECTING")
          /\ nettick' = "rest" /\ UNCHANGED <<state, tries>>
    /\ UNCHANGED <<lease_vars, net, waited, age, elapsed, due, setup, app, replies, granted>>

\* The address is cleared, whatever the state is by now.
dhc_resetip ==
    /\ nettick = "restarting"
    /\ nettick' = "reset"
    /\ net' = Unset
    /\ UNCHANGED <<state, tries, lease_vars, waited, age, elapsed, due, seen, setup, app, replies,
                   granted>>

Restarted ==
    /\ nettick = "reset"
    /\ nettick' = "rest"
    /\ dhc_set_state("INIT")
    /\ UNCHANGED <<lease_vars, net, waited, age, elapsed, due, seen, setup, app, replies, granted>>

dhc_second ==
    \/ /\ \/ SecondInit \/ SecondRetry \/ SecondBound \/ SecondRenewing \/ SecondRebinding
          \/ SecondUnused
       /\ UNCHANGED <<waited, age, elapsed, setup, app, granted>>
    \/ AfterSend
    \/ AfterRetries \/ dhc_resetip \/ Restarted

\* A second passes when dhc_second has done what the last one asked for.  Ages are not counted
\* further than anything compares them with.
LongestWait ==
    Max({DHC_RETRY_TMO * 2 ^ DHC_MAX_TRIES, RENEW_MIN} \cup (Leases \ {DHC_INFINITY})) + 1

Tick ==
    /\ setup \in {"waiting", "ready"} /\ nettick = "rest" /\ ~ due
    /\ due' = TRUE
    /\ waited' = Min({waited + 1, LongestWait})
    /\ age' = Min({age + 1, IF lease = DHC_INFINITY THEN 0 ELSE lease + 3})
    /\ elapsed' = IF setup = "waiting" THEN Min({elapsed + 1, SETUP_TMO}) ELSE elapsed
    /\ UNCHANGED <<state, tries, lease_vars, net, nettick, seen, setup, app, replies, granted>>

-----------------------------------------------------------------------------
netmain == Setup \/ SetupEnds \/ dhc_upcall

Next == netmain \/ StartServers \/ dhc_second \/ Tick

Spec == Init /\ [][Next]_vars

\* Time passes, and both tasks and init_task get their turn.
FairSpec ==
    /\ Spec
    /\ WF_vars(Tick) /\ WF_vars(dhc_second) /\ WF_vars(dhc_upcall)
    /\ WF_vars(Setup) /\ WF_vars(SetupEnds) /\ WF_vars(StartServers)

-----------------------------------------------------------------------------
(* Properties *)

Holding == state \in {"BOUND", "RENEWING", "REBINDING"}

TypeOK ==
    /\ state \in {"UNUSED", "INIT", "INITREBOOT", "REBOOTING", "SELECTING", "REQUESTING",
                  "BOUND", "RENEWING", "REBINDING", "RESTARTING"}
    /\ tries \in 0 .. DHC_MAX_TRIES /\ seen \in 0 .. DHC_MAX_TRIES
    /\ ipaddr \in Addresses \cup {0} /\ net.addr \in Addresses \cup {0}
    /\ {snmask, net.mask} \subseteq {"none", "static", "leased"}
    /\ srv_ipaddr \in Servers \cup {None}
    /\ lease \in Leases \cup {0, DHC_INFINITY}
    /\ nettick \in {"rest", "discovered", "sent", "asked", "retried", "restarting", "reset"}
    /\ setup \in {"start", "exit", "waiting", "ready"} /\ app \in {"waiting", "serving"}
    /\ Len(replies) <= MaxInFlight

\* The address in use is the one a server has granted, over every path of offers, retries,
\* renewals and restarts, and although a reply's transaction is checked in offers only;
\* replies arrive in the order in which they are sent.  Except that dhc_resetip may just have
\* undone what a BOOTP reply brought during a restart, before Restarted takes notice of it.
AcknowledgedAddress == Holding /\ nettick # "reset" => net.addr = granted

AtRest == nettick = "rest" /\ ~ due

\* No lease at all counts as one of a second.
Overdue == lease # DHC_INFINITY /\ age > lease + 1 /\ age > 2

\* A client that takes itself for bound, renewing or rebinding is so at most a second past
\* its lease, however short the lease is.
LeaseRespected == Holding /\ AtRest => ~ Overdue

\* While it asks for a new lease the address is not given up before the lease has expired.
ExpiresWhenDue ==
    [][state = "REBINDING" /\ (state' = "RESTARTING" \/ (net.addr # 0 /\ net'.addr = 0))
           => lease <= age]_vars

\* When the stack is said to be ready the interface has an address, unless dhc_resetip has
\* just undone what a BOOTP reply brought during a restart.
ReadyWithAddress ==
    [][setup # "ready" /\ setup' = "ready" /\ nettick # "reset" => net'.addr # 0]_vars

\* Whatever the servers do, and without any server, the application's servers start (unless
\* there was no buffer for the first packet, and the program has exited).
ServersStart == <>(app = "serving" \/ setup = "exit")

\* "garante fallback estatico se houver timeout" (mac_ip_utils.c): after the timeout the
\* interface has the configuration of get_ip_addr.
StaticFallback == [][setup = "waiting" /\ setup' = "ready" /\ state' = "UNUSED" => net' = Static]_vars

\* "send a broadcast packet to see if we can lease this IP from some other server"
\* (dhcpclnt.c): a grant that arrives while rebinding is taken.
RebindsElsewhere ==
    [][state = "REBINDING" /\ dhc_upcall /\ reply.type = "ACK" => state' = "BOUND"]_vars

\* "the IP address of the interface should be cleared" (dhcpclnt.h) when the lease expires
\* and no ACK or NAK has come.
ExpiredAddressCleared == AtRest /\ granted # None /\ net.addr = granted => ~ Overdue

\* "stop dhcp all client activity" (dhcpclnt.c, dhc_halt).
HaltStops == [][state = "UNUSED" /\ setup = "ready" => state' = "UNUSED"]_vars

\* "Client doesn't receive a ACK/NAK. It retransmits ... After few retransmits" it restarts
\* (dhcpclnt.h): the retries do not take away an address that has just been granted.
GrantedIsKept == [][state = "BOUND" => state' # "RESTARTING"]_vars
=============================================================================
