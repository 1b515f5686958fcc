---------------------------- MODULE NetworkTasks ----------------------------
(***************************************************************************)
(* The two uC/OS-II tasks of network_tasks.c: rx_task accepts a client,    *)
(* reads its request with one recv, parses it and hands it over;           *)
(* tx_task waits on query_ready_sem, runs the query and answers.  They     *)
(* share current_client_socket, pending_request, the semaphore and, through *)
(* send_error_response, the buffer http_response_body.                     *)
(*                                                                         *)
(* One step is one access to shared state or one socket call.  rx_task has *)
(* the higher priority: tx_task runs only while rx_task is blocked, and is *)
(* preempted between any two of its steps when rx_task wakes.              *)
(*                                                                         *)
(* The query itself (Accelerator.tla) is one step here, with the outcomes  *)
(* process_request can have.  A request is known by the client that sent   *)
(* it and by whether the whole of it was received.                         *)
(***************************************************************************)
EXTENDS Naturals, Sequences, FiniteSets

CONSTANTS Clients,     \* the connections of one behaviour
          Malformed,   \* the clients whose whole request does not parse
          None         \* no socket (-1), no request, no header

ASSUME ClientsAssumption ==
    /\ IsFiniteSet(Clients)
    /\ Malformed \subseteq Clients
    /\ None \notin Clients

NUL == 0
BodySize == 3          \* bound: chunks of http_response_body, the last one NUL
Codes == {200, 400, 404, 503}

VARIABLES
    conn,              \* state of each connection, as the stack sees it
    inbox,             \* what has arrived of the client's request
    header, payload,   \* what has been sent to the client
    current_client_socket, pending_request, query_ready_sem,
    http_response_body,
    rx, client_fd, received, rx_code, rx_len,   \* rx_task and its locals
    tx, tx_code, tx_offset, tx_len              \* tx_task and its locals

netVars == <<conn, inbox, header, payload>>
sharedVars == <<current_client_socket, pending_request, query_ready_sem, http_response_body>>
rxVars == <<rx, client_fd, received, rx_code, rx_len>>
txVars == <<tx, tx_code, tx_offset, tx_len>>
vars == <<netVars, sharedVars, rxVars, txVars>>

Init ==
    /\ conn = [c \in Clients |-> "new"]
    /\ inbox = [c \in Clients |-> "empty"]
    /\ header = [c \in Clients |-> None]
    /\ payload = [c \in Clients |-> <<>>]
    /\ current_client_socket = None
    /\ pending_request = None
    /\ query_ready_sem = 0
    /\ http_response_body = [i \in 1..BodySize |-> NUL]
    /\ rx = "accept" /\ client_fd = None /\ received = "empty" /\ rx_code = 0 /\ rx_len = 0
    /\ tx = "pend" /\ tx_code = 0 /\ tx_offset = 0 /\ tx_len = 0

-----------------------------------------------------------------------------
(* The clients and the TCP stack: soisconnected puts a connection into the queue of accept,
   tcp_input appends data to so_rcv or marks the end of it, t_socketclose frees the socket. *)

Connect(c) ==
    /\ conn[c] = "new"
    /\ conn' = [conn EXCEPT ![c] = "backlog"]
    /\ UNCHANGED <<inbox, header, payload, sharedVars, rxVars, txVars>>

\* A segment of the request arrives: all of it, or a first part of it; or the
\* client closes before it has sent anything.
Arrive(c) ==
    /\ conn[c] \in {"backlog", "open"}
    /\ \E what \in {"part", "whole", "shut"} :
          /\ \/ inbox[c] = "empty"
             \/ inbox[c] = "part" /\ what = "whole"
          /\ inbox' = [inbox EXCEPT ![c] = what]
    /\ UNCHANGED <<conn, header, payload, sharedVars, rxVars, txVars>>

Close(c) == conn' = [conn EXCEPT ![c] = "closed"]

-----------------------------------------------------------------------------
(* The response buffer. *)

\* Text for client c formatted at an offset, and the NUL after it.
Formatted(offset, c) ==
    [http_response_body EXCEPT ![offset + 1] = c, ![offset + 2] = NUL]

Strlen == CHOOSE n \in 0..(BodySize - 1) :
             /\ http_response_body[n + 1] = NUL
             /\ \A i \in 1..n : http_response_body[i] # NUL

SendHeader(c, code, len) == header' = [header EXCEPT ![c] = [code |-> code, len |-> len]]

SendBody(c, len) ==
    payload' = [payload EXCEPT ![c] = @ \o SubSeq(http_response_body, 1, len)]

-----------------------------------------------------------------------------
(* rx_task *)

\* Calls in which rx_task may be blocked, letting tx_task run: accept and recv
\* while there is nothing for them, and send while the stack is busy.
RxBlocked ==
    \/ rx = "accept" /\ \A c \in Clients : conn[c] # "backlog"
    \/ rx = "recv" /\ inbox[client_fd] = "empty"
    \/ rx \in {"send_header", "send_body"}

\* The locals of one round of the loop go out of scope.
RxForgets == client_fd' = None /\ received' = "empty" /\ rx_code' = 0 /\ rx_len' = 0

RxAccept ==
    /\ rx = "accept"
    /\ \E c \in Clients :
          /\ conn[c] = "backlog"
          /\ conn' = [conn EXCEPT ![c] = "open"]
          /\ client_fd' = c
    /\ rx' = "check"
    /\ UNCHANGED <<inbox, header, payload, sharedVars, received, rx_code, rx_len, txVars>>

\* Mutant: a second request is accepted while one is being answered.
RxCheckIgnoresBusy ==
    /\ rx = "check"
    /\ rx' = "recv"
    /\ rx_code' = 0
    /\ UNCHANGED <<netVars, sharedVars, client_fd, received, rx_len, txVars>>

\* One query at a time: a client that comes while one is served gets a 503.
RxCheck ==
    /\ rx = "check"
    /\ IF current_client_socket # None
         THEN rx' = "error" /\ rx_code' = 503
         ELSE rx' = "recv" /\ UNCHANGED rx_code
    /\ UNCHANGED <<netVars, sharedVars, client_fd, received, rx_len, txVars>>

\* A single recv: it returns what has arrived by now.
RxRecv ==
    /\ rx = "recv"
    /\ inbox[client_fd] # "empty"
    /\ received' = inbox[client_fd]
    /\ rx' = IF inbox[client_fd] = "shut" THEN "close" ELSE "parse"
    /\ UNCHANGED <<netVars, sharedVars, client_fd, rx_code, rx_len, txVars>>

\* parse_request_body: a part of a request may lack a field, or have them all
\* with the SQL text cut short.
RxParse ==
    /\ rx = "parse"
    /\ \/ /\ received = "part" \/ client_fd \notin Malformed
          /\ rx' = "store"
          /\ UNCHANGED rx_code
       \/ /\ received = "part" \/ client_fd \in Malformed
          /\ rx' = "error"
          /\ rx_code' = 400
    /\ UNCHANGED <<netVars, sharedVars, client_fd, received, rx_len, txVars>>

RxStore ==
    /\ rx = "store"
    /\ pending_request' = [client |-> client_fd, text |-> received]
    /\ rx' = "publish"
    /\ UNCHANGED <<netVars, current_client_socket, query_ready_sem, http_response_body,
                   client_fd, received, rx_code, rx_len, txVars>>

RxPublish ==
    /\ rx = "publish"
    /\ current_client_socket' = client_fd
    /\ rx' = "post"
    /\ UNCHANGED <<netVars, pending_request, query_ready_sem, http_response_body,
                   client_fd, received, rx_code, rx_len, txVars>>

\* Mutant: the semaphore is not posted.
RxPostForgotten ==
    /\ rx = "post"
    /\ rx' = "accept"
    /\ RxForgets
    /\ UNCHANGED <<netVars, sharedVars, txVars>>

RxPost ==
    /\ rx = "post"
    /\ query_ready_sem' = query_ready_sem + 1
    /\ rx' = "accept"
    /\ RxForgets
    /\ UNCHANGED <<netVars, current_client_socket, pending_request, http_response_body, txVars>>

\* send_error_response: the text goes through the shared buffer.
RxError ==
    /\ rx = "error"
    /\ http_response_body' = Formatted(0, client_fd)
    /\ rx' = "strlen"
    /\ UNCHANGED <<netVars, current_client_socket, pending_request, query_ready_sem,
                   client_fd, received, rx_code, rx_len, txVars>>

RxStrlen ==
    /\ rx = "strlen"
    /\ rx_len' = Strlen
    /\ rx' = "send_header"
    /\ UNCHANGED <<netVars, sharedVars, client_fd, received, rx_code, txVars>>

RxSendHeader ==
    /\ rx = "send_header"
    /\ SendHeader(client_fd, rx_code, rx_len)
    /\ rx' = "send_body"
    /\ UNCHANGED <<conn, inbox, payload, sharedVars, client_fd, received, rx_code, rx_len, txVars>>

\* Mutant: the error path goes back to accept without closing the socket.
RxSendBodyLeaks ==
    /\ rx = "send_body"
    /\ SendBody(client_fd, rx_len)
    /\ rx' = "accept"
    /\ RxForgets
    /\ UNCHANGED <<conn, inbox, header, sharedVars, txVars>>

RxSendBody ==
    /\ rx = "send_body"
    /\ SendBody(client_fd, rx_len)
    /\ rx' = "close"
    /\ UNCHANGED <<conn, inbox, header, sharedVars, client_fd, received, rx_code, rx_len, txVars>>

\* Mutant: the continue after a 400 is missing.
RxCloseFallsThrough ==
    /\ rx = "close"
    /\ Close(client_fd)
    /\ IF rx_code = 400
         THEN rx' = "store" /\ UNCHANGED <<client_fd, received, rx_code, rx_len>>
         ELSE rx' = "accept" /\ RxForgets
    /\ UNCHANGED <<inbox, header, payload, sharedVars, txVars>>

RxClose ==
    /\ rx = "close"
    /\ Close(client_fd)
    /\ rx' = "accept"
    /\ RxForgets
    /\ UNCHANGED <<inbox, header, payload, sharedVars, txVars>>

Rx == \/ RxAccept \/ RxCheck \/ RxRecv \/ RxParse \/ RxStore \/ RxPublish \/ RxPost
      \/ RxError \/ RxStrlen \/ RxSendHeader \/ RxSendBody \/ RxClose

-----------------------------------------------------------------------------
(* tx_task *)

TxPend ==
    /\ tx = "pend"
    /\ query_ready_sem > 0
    /\ query_ready_sem' = query_ready_sem - 1
    /\ tx' = "check"
    /\ UNCHANGED <<netVars, current_client_socket, pending_request, http_response_body,
                   rxVars, tx_code, tx_offset, tx_len>>

TxCheck ==
    /\ tx = "check"
    /\ tx' = IF current_client_socket # None THEN "process" ELSE "pend"
    /\ UNCHANGED <<netVars, sharedVars, rxVars, tx_code, tx_offset, tx_len>>

\* process_request up to the response: no such table, a query that does not
\* compile, an aggregate (one line of text) or rows (a text built in pieces).
\* The 500 answers are unreachable: the base address is set, the source holds
\* the words to send, and 256 rows of 12 characters fit in the 8192 of the buffer.
TxProcess ==
    /\ tx = "process"
    /\ tx_offset' = 0
    /\ \/ tx_code' = 404 /\ tx' = "error"
       \/ tx_code' = 400 /\ tx' = "error"
       \/ tx_code' = 200 /\ tx' = "aggregate"
       \/ tx_code' = 200 /\ tx' = "rows"
    /\ UNCHANGED <<netVars, sharedVars, rxVars, tx_len>>

\* The error text of send_error_response, or an aggregate's answer: one
\* snprintf from the start of the buffer.
TxFormat ==
    /\ tx \in {"error", "aggregate"}
    /\ http_response_body' = Formatted(0, current_client_socket)
    /\ tx' = "strlen"
    /\ UNCHANGED <<netVars, current_client_socket, pending_request, query_ready_sem,
                   rxVars, tx_code, tx_offset, tx_len>>

\* Mutant: the room left in the buffer is counted without the terminating NUL.
TxAppendNoNul ==
    /\ tx = "rows"
    /\ http_response_body' = Formatted(tx_offset, current_client_socket)
    /\ tx_offset' = tx_offset + 1
    /\ tx' = IF tx_offset + 1 < BodySize THEN "rows" ELSE "strlen"
    /\ UNCHANGED <<netVars, current_client_socket, pending_request, query_ready_sem,
                   rxVars, tx_code, tx_len>>

\* build_success_body: each appendf writes at the offset tx_task keeps.
TxAppend ==
    /\ tx = "rows"
    /\ http_response_body' = Formatted(tx_offset, current_client_socket)
    /\ tx_offset' = tx_offset + 1
    /\ tx' = IF tx_offset + 1 < BodySize - 1 THEN "rows" ELSE "strlen"
    /\ UNCHANGED <<netVars, current_client_socket, pending_request, query_ready_sem,
                   rxVars, tx_code, tx_len>>

TxStrlen ==
    /\ tx = "strlen"
    /\ tx_len' = Strlen
    /\ tx' = "send_header"
    /\ UNCHANGED <<netVars, sharedVars, rxVars, tx_code, tx_offset>>

TxSendHeader ==
    /\ tx = "send_header"
    /\ SendHeader(current_client_socket, tx_code, tx_len)
    /\ tx' = "send_body"
    /\ UNCHANGED <<conn, inbox, payload, sharedVars, rxVars, tx_code, tx_offset, tx_len>>

TxSendBody ==
    /\ tx = "send_body"
    /\ SendBody(current_client_socket, tx_len)
    /\ tx' = "close"
    /\ UNCHANGED <<conn, inbox, header, sharedVars, rxVars, tx_code, tx_offset, tx_len>>

\* close_client_socket: the socket is closed, then marked free.
TxClose ==
    /\ tx = "close"
    /\ Close(current_client_socket)
    /\ tx' = "free"
    /\ tx_code' = 0 /\ tx_offset' = 0 /\ tx_len' = 0
    /\ UNCHANGED <<inbox, header, payload, sharedVars, rxVars>>

TxFree ==
    /\ tx = "free"
    /\ current_client_socket' = None
    /\ tx' = "pend"
    /\ UNCHANGED <<netVars, pending_request, query_ready_sem, http_response_body,
                   rxVars, tx_code, tx_offset, tx_len>>

Tx == /\ RxBlocked
      /\ \/ TxPend \/ TxCheck \/ TxProcess \/ TxFormat \/ TxAppend \/ TxStrlen
         \/ TxSendHeader \/ TxSendBody \/ TxClose \/ TxFree

-----------------------------------------------------------------------------

Next == Rx \/ Tx \/ \E c \in Clients : Connect(c) \/ Arrive(c)

Spec == Init /\ [][Next]_vars

\* The scheduler runs a task that is ready; clients need not do anything.
FairSpec == Spec /\ WF_vars(Rx) /\ WF_vars(Tx)

-----------------------------------------------------------------------------
(* Properties. *)

RxStates == {"accept", "check", "recv", "parse", "store", "publish", "post", "error",
             "strlen", "send_header", "send_body", "close"}
TxStates == {"pend", "check", "process", "error", "aggregate", "rows", "strlen",
             "send_header", "send_body", "close", "free"}
Texts == {"empty", "part", "whole", "shut"}

\* The shared variables and the locals of the tasks hold values of their kinds;
\* a socket that rx_task uses is a client's.
TypeOK ==
    /\ conn \in [Clients -> {"new", "backlog", "open", "closed"}]
    /\ inbox \in [Clients -> Texts]
    /\ header \in [Clients -> {None} \cup [code : Codes, len : 0..(BodySize - 1)]]
    /\ payload \in [Clients -> Seq(Clients \cup {NUL})]
    /\ current_client_socket \in Clients \cup {None}
    /\ pending_request \in {None} \cup [client : Clients, text : Texts]
    /\ query_ready_sem \in Nat
    /\ http_response_body \in [1..BodySize -> Clients \cup {NUL}]
    /\ rx \in RxStates
    /\ client_fd \in IF rx = "accept" THEN {None} ELSE Clients
    /\ received \in Texts
    /\ rx_code \in Codes \cup {0} /\ rx_len \in 0..(BodySize - 1)
    /\ tx \in TxStates
    /\ tx_code \in Codes \cup {0} /\ tx_offset \in 0..(BodySize - 1)
    /\ tx_len \in 0..(BodySize - 1)

Count(b) == IF b THEN 1 ELSE 0

\* The hand-over keeps one query at a time: a client socket is published exactly
\* while one request is on its way, about to be posted, posted, or being
\* answered.  So the semaphore is never above one, and tx_task never wakes
\* without a socket, although rx_task tests current_client_socket long before
\* it sets it (a blocking recv lies in between).
HandOver ==
    Count(rx = "post") + query_ready_sem + Count(tx # "pend")
        = Count(current_client_socket # None)

\* The request tx_task reads throughout its answer is the one of the client it
\* answers: rx_task has not overwritten pending_request with a later one.
RequestOfClient ==
    current_client_socket # None => pending_request.client = current_client_socket

\* No connection is lost: an accepted socket that is still open is held by one
\* of the tasks, and never by both once the hand-over is complete.
SocketsHeld ==
    /\ \A c \in Clients : conn[c] = "open" => c \in {client_fd, current_client_socket}
    /\ client_fd # None /\ client_fd = current_client_socket => rx = "post"

\* A client is sent at most one status line, and nothing after its socket has
\* been closed.
OneResponse ==
    [][\A c \in Clients :
          /\ header'[c] # header[c] => header[c] = None /\ conn[c] = "open"
          /\ payload'[c] # payload[c] => conn[c] = "open"]_vars

\* A published request is answered and its socket closed, even if other clients
\* keep their connections open in silence or are turned away meanwhile.
EveryRequestAnswered ==
    \A c \in Clients : current_client_socket = c ~> conn[c] = "closed"

\* "O firmware atende uma consulta por vez": what a client is sent is text
\* written for it.
OwnText == \A c \in Clients : \A i \in DOMAIN payload[c] : payload[c][i] = c

\* "rx_task recebe a mensagem pelo socket TCP, valida os campos e grava a
\* estrutura pending_request": a request that is run was received whole.
WholeRequests == pending_request # None => pending_request.text = "whole"
=============================================================================
