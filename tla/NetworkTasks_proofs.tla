------------------------ MODULE NetworkTasks_proofs -------------------------
(***************************************************************************)
(* For every number of clients: the hand-over between rx_task and tx_task  *)
(* keeps one query at a time, tx_task answers the client whose request it  *)
(* read, no accepted socket is lost, and a client gets at most one         *)
(* response.                                                               *)
(***************************************************************************)
EXTENDS NetworkTasks, TLAPS

\* The variables the argument needs the types of.
Types ==
    /\ conn \in [Clients -> {"new", "backlog", "open", "closed"}]
    /\ DOMAIN header = Clients /\ DOMAIN payload = Clients
    /\ current_client_socket \in Clients \cup {None}
    /\ query_ready_sem \in Nat
    /\ rx \in RxStates
    /\ client_fd \in IF rx = "accept" THEN {None} ELSE Clients
    /\ tx \in TxStates

\* The missing link of the hand-over: from the moment rx_task has found no client
\* being served until it publishes its own, none is, because nobody else sets
\* current_client_socket.
StillFree == rx \in {"recv", "parse", "store", "publish"} => current_client_socket = None

\* What rx_task has stored, and what it is about to post.
Stored ==
    /\ rx \in {"publish", "post"} => pending_request.client = client_fd
    /\ rx = "post" => current_client_socket = client_fd

\* The sockets the tasks hold are open, but for the moment between close and the
\* assignment of -1.
HeldOpen ==
    /\ client_fd # None => conn[client_fd] = "open"
    /\ current_client_socket # None =>
          conn[current_client_socket] = IF tx = "free" THEN "closed" ELSE "open"

\* No status line has been sent to a client that still waits for one.
Unanswered ==
    /\ \A c \in Clients : conn[c] \in {"new", "backlog"} => header[c] = None
    /\ rx \notin {"accept", "send_body", "close"} => header[client_fd] = None
    /\ current_client_socket # None /\ tx \notin {"send_body", "close", "free"} =>
          header[current_client_socket] = None

IndInv == /\ Types /\ HandOver /\ StillFree /\ Stored /\ RequestOfClient
          /\ HeldOpen /\ SocketsHeld /\ Unanswered

LEMMA InitIndInv == Init => IndInv
  BY ClientsAssumption
     DEF Init, IndInv, Types, HandOver, Count, StillFree, Stored, RequestOfClient, HeldOpen,
         SocketsHeld, Unanswered, RxStates, TxStates

\* Every step of rx_task keeps the inductive invariant.
LEMMA RxKeeps == IndInv /\ Rx => IndInv'
  <1> USE ClientsAssumption
      DEF IndInv, Types, HandOver, Count, StillFree, Stored, RequestOfClient, HeldOpen,
          SocketsHeld, Unanswered, RxStates, TxStates, netVars, sharedVars, rxVars, txVars
  <1> SUFFICES ASSUME IndInv, Rx PROVE IndInv'
    OBVIOUS
  <1>1. CASE RxAccept
    BY <1>1 DEF RxAccept
  <1>2. CASE RxCheck
    BY <1>2 DEF RxCheck
  <1>3. CASE RxRecv
    BY <1>3 DEF RxRecv
  <1>4. CASE RxParse
    BY <1>4 DEF RxParse
  <1>5. CASE RxStore
    BY <1>5 DEF RxStore
  <1>6. CASE RxPublish
    BY <1>6 DEF RxPublish
  <1>7. CASE RxPost
    BY <1>7 DEF RxPost, RxForgets
  <1>8. CASE RxError
    BY <1>8 DEF RxError, Formatted
  <1>9. CASE RxStrlen
    BY <1>9 DEF RxStrlen
  <1>10. CASE RxSendHeader
    BY <1>10 DEF RxSendHeader, SendHeader
  <1>11. CASE RxSendBody
    BY <1>11 DEF RxSendBody, SendBody
  <1>12. CASE RxClose
    BY <1>12 DEF RxClose, RxForgets, Close
  <1> QED BY <1>1, <1>2, <1>3, <1>4, <1>5, <1>6, <1>7, <1>8, <1>9, <1>10, <1>11, <1>12 DEF Rx

\* Every step of tx_task keeps it, whether or not rx_task is blocked.
LEMMA TxKeeps == IndInv /\ Tx => IndInv'
  <1> USE ClientsAssumption
      DEF IndInv, Types, HandOver, Count, StillFree, Stored, RequestOfClient, HeldOpen,
          SocketsHeld, Unanswered, RxStates, TxStates, netVars, sharedVars, rxVars, txVars
  <1> SUFFICES ASSUME IndInv, Tx PROVE IndInv'
    OBVIOUS
  <1>1. CASE TxPend
    BY <1>1 DEF TxPend
  <1>2. CASE TxCheck
    BY <1>2 DEF TxCheck
  <1>3. CASE TxProcess
    BY <1>3 DEF TxProcess
  <1>4. CASE TxFormat
    BY <1>4 DEF TxFormat, Formatted
  <1>5. CASE TxAppend
    BY <1>5 DEF TxAppend, Formatted, BodySize
  <1>6. CASE TxStrlen
    BY <1>6 DEF TxStrlen
  <1>7. CASE TxSendHeader
    BY <1>7 DEF TxSendHeader, SendHeader
  <1>8. CASE TxSendBody
    BY <1>8 DEF TxSendBody, SendBody
  <1>9. CASE TxClose
    BY <1>9 DEF TxClose, Close
  <1>10. CASE TxFree
    BY <1>10 DEF TxFree
  <1> QED BY <1>1, <1>2, <1>3, <1>4, <1>5, <1>6, <1>7, <1>8, <1>9, <1>10 DEF Tx

\* So do the clients and the stack.
LEMMA ClientKeeps ==
    ASSUME IndInv, NEW c \in Clients, Connect(c) \/ Arrive(c)
    PROVE  IndInv'
  <1> USE ClientsAssumption
      DEF IndInv, Types, HandOver, Count, StillFree, Stored, RequestOfClient, HeldOpen,
          SocketsHeld, Unanswered, RxStates, TxStates, netVars, sharedVars, rxVars, txVars
  <1>1. CASE Connect(c)
    BY <1>1 DEF Connect
  <1>2. CASE Arrive(c)
    BY <1>2 DEF Arrive
  <1> QED BY <1>1, <1>2

LEMMA StepIndInv == IndInv /\ [Next]_vars => IndInv'
  <1> SUFFICES ASSUME IndInv, [Next]_vars PROVE IndInv'
    OBVIOUS
  <1>1. CASE Rx
    BY <1>1, RxKeeps
  <1>2. CASE Tx
    BY <1>2, TxKeeps
  <1>3. CASE \E c \in Clients : Connect(c) \/ Arrive(c)
    BY <1>3, ClientKeeps
  <1>4. CASE UNCHANGED vars
    BY <1>4 DEF vars, netVars, sharedVars, rxVars, txVars, IndInv, Types, HandOver, Count,
                StillFree, Stored, RequestOfClient, HeldOpen, SocketsHeld, Unanswered
  <1> QED BY <1>1, <1>2, <1>3, <1>4 DEF Next

LEMMA Invariance == Spec => []IndInv
  BY InitIndInv, StepIndInv, PTL DEF Spec

\* One query at a time, for any number of clients: the socket is published exactly
\* while one request is on its way or being answered.
THEOREM HandOverHolds == Spec => []HandOver
  BY Invariance, PTL DEF IndInv

\* tx_task never answers a client with another client's request.
THEOREM RequestOfClientHolds == Spec => []RequestOfClient
  BY Invariance, PTL DEF IndInv

\* No accepted connection is lost.
THEOREM SocketsHeldHolds == Spec => []SocketsHeld
  BY Invariance, PTL DEF IndInv

\* A client is sent at most one status line, and nothing after the close.
THEOREM OneResponseHolds == Spec => OneResponse
  <1> DEFINE Once == \A c \in Clients :
                        /\ header'[c] # header[c] => header[c] = None /\ conn[c] = "open"
                        /\ payload'[c] # payload[c] => conn[c] = "open"
  <1>1. IndInv /\ [Next]_vars => [Once]_vars
    <2> SUFFICES ASSUME IndInv, Next PROVE Once
      OBVIOUS
    <2> USE DEF IndInv, Types, HeldOpen, HandOver, Count, Unanswered, RxStates, TxStates,
                netVars, sharedVars, rxVars, txVars
    <2>1. CASE RxSendHeader
      BY <2>1, ClientsAssumption DEF RxSendHeader, SendHeader
    <2>2. CASE RxSendBody
      BY <2>2, ClientsAssumption DEF RxSendBody, SendBody
    <2>3. CASE TxSendHeader
      BY <2>3, ClientsAssumption DEF TxSendHeader, SendHeader
    <2>4. CASE TxSendBody
      BY <2>4, ClientsAssumption DEF TxSendBody, SendBody
    <2>5. CASE Rx /\ ~RxSendHeader /\ ~RxSendBody
      BY <2>5 DEF Rx, RxAccept, RxCheck, RxRecv, RxParse, RxStore, RxPublish, RxPost, RxError,
                  RxStrlen, RxClose
    <2>6. CASE Tx /\ ~TxSendHeader /\ ~TxSendBody
      BY <2>6 DEF Tx, TxPend, TxCheck, TxProcess, TxFormat, TxAppend, TxStrlen, TxClose, TxFree
    <2>7. CASE \E c \in Clients : Connect(c) \/ Arrive(c)
      BY <2>7 DEF Connect, Arrive
    <2> QED BY <2>1, <2>2, <2>3, <2>4, <2>5, <2>6, <2>7 DEF Next, Rx, Tx
  <1> QED BY <1>1, Invariance, PTL DEF Spec, OneResponse

-----------------------------------------------------------------------------

\* Type correctness needs that tx_task, once awake, has a socket (HandOver), that
\* an appended piece fits, that the buffer always ends in a NUL, so that strlen
\* stays inside it, and that a status code is chosen before a response is sent.
TypeInv ==
    /\ TypeOK
    /\ tx = "rows" => tx_offset < BodySize - 1
    /\ http_response_body[BodySize] = NUL
    /\ rx \in {"error", "strlen", "send_header"} => rx_code \in Codes
    /\ tx \in {"error", "aggregate", "rows", "strlen", "send_header"} => tx_code \in Codes

\* strlen(http_response_body) stays inside the buffer.
LEMMA StrlenRange == TypeInv => Strlen \in 0..(BodySize - 1)
  <1> SUFFICES ASSUME TypeInv PROVE Strlen \in 0..(BodySize - 1)
    OBVIOUS
  <1> DEFINE ends(n) == /\ http_response_body[n + 1] = NUL
                        /\ \A i \in 1..n : http_response_body[i] # NUL
  <1>1. \E n \in 0..(BodySize - 1) : ends(n)
    <2>1. CASE http_response_body[1] = NUL
      BY <2>1 DEF BodySize
    <2>2. CASE http_response_body[1] # NUL /\ http_response_body[2] = NUL
      <3>1. ends(1)
        BY <2>2
      <3> QED BY <3>1 DEF BodySize
    <2>3. CASE http_response_body[1] # NUL /\ http_response_body[2] # NUL
      <3>1. ends(2)
        BY <2>3 DEF TypeInv, BodySize
      <3> QED BY <3>1 DEF BodySize
    <2> QED BY <2>1, <2>2, <2>3
  <1>2. (CHOOSE n \in 0..(BodySize - 1) : ends(n)) \in 0..(BodySize - 1)
    BY <1>1
  <1> QED BY <1>2 DEF Strlen

\* A piece of text and its NUL, written at an offset where they fit.
LEMMA FormattedType ==
    ASSUME TypeInv, NEW c \in Clients, NEW offset \in {0, 1}
    PROVE  /\ Formatted(offset, c) \in [1..BodySize -> Clients \cup {NUL}]
           /\ Formatted(offset, c)[BodySize] = NUL
  <1>1. http_response_body \in [1..3 -> Clients \cup {NUL}] /\ http_response_body[3] = NUL
    BY DEF TypeInv, TypeOK, BodySize
  <1>2. CASE offset = 0
    BY <1>1, <1>2 DEF Formatted, BodySize
  <1>3. CASE offset = 1
    BY <1>1, <1>3 DEF Formatted, BodySize
  <1> QED BY <1>2, <1>3

LEMMA InitTypeInv == Init => TypeInv
  BY ClientsAssumption
     DEF Init, TypeInv, TypeOK, RxStates, TxStates, Texts, Codes, NUL, BodySize

\* Every step of rx_task keeps the types.
LEMMA RxTypes ==
    IndInv /\ TypeInv /\ Rx => TypeInv'
  <1> SUFFICES ASSUME IndInv, TypeInv, Rx PROVE TypeInv'
    OBVIOUS
  <1>0. tx # "pend" => current_client_socket \in Clients
    BY DEF IndInv, Types, HandOver, Count
  <1> USE ClientsAssumption
      DEF TypeInv, TypeOK, RxStates, TxStates, Texts, Codes, NUL, BodySize,
          netVars, sharedVars, rxVars, txVars
  <1>1. CASE RxAccept
    BY <1>0, <1>1 DEF RxAccept
  <1>2. CASE RxCheck
    BY <1>0, <1>2 DEF RxCheck
  <1>3. CASE RxRecv
    BY <1>0, <1>3 DEF RxRecv
  <1>4. CASE RxParse
    BY <1>0, <1>4 DEF RxParse
  <1>5. CASE RxStore
    BY <1>0, <1>5 DEF RxStore
  <1>6. CASE RxPublish
    BY <1>0, <1>6 DEF RxPublish
  <1>7. CASE RxPost
    BY <1>0, <1>7 DEF RxPost, RxForgets
  <1>8. CASE RxError
    BY <1>0, <1>8 DEF RxError, Formatted
  <1>9. CASE RxStrlen
    BY <1>0, <1>9, StrlenRange DEF RxStrlen
  <1>10. CASE RxSendHeader
    BY <1>0, <1>10 DEF RxSendHeader, SendHeader
  <1>11. CASE RxSendBody
    BY <1>0, <1>11 DEF RxSendBody, SendBody
  <1>12. CASE RxClose
    BY <1>0, <1>12 DEF RxClose, RxForgets, Close
  <1> QED BY <1>1, <1>2, <1>3, <1>4, <1>5, <1>6, <1>7, <1>8, <1>9, <1>10, <1>11, <1>12 DEF Rx

\* Every step of tx_task keeps the types.
LEMMA TxTypes ==
    IndInv /\ TypeInv /\ Tx => TypeInv'
  <1> SUFFICES ASSUME IndInv, TypeInv, Tx PROVE TypeInv'
    OBVIOUS
  <1>0. tx # "pend" => current_client_socket \in Clients
    BY DEF IndInv, Types, HandOver, Count
  <1> USE ClientsAssumption
      DEF TypeInv, TypeOK, RxStates, TxStates, Texts, Codes, NUL, BodySize,
          netVars, sharedVars, rxVars, txVars
  <1>1. CASE TxPend
    BY <1>0, <1>1 DEF TxPend
  <1>2. CASE TxCheck
    BY <1>0, <1>2 DEF TxCheck
  <1>3. CASE TxProcess
    BY <1>0, <1>3 DEF TxProcess
  <1>4. CASE TxFormat
    <2>1. http_response_body' = Formatted(0, current_client_socket) /\ tx # "pend"
      BY <1>4 DEF TxFormat
    <2>2. /\ http_response_body' \in [1..BodySize -> Clients \cup {NUL}]
          /\ http_response_body'[BodySize] = NUL
      BY <1>0, <2>1, FormattedType
    <2> QED BY <1>4, <2>2 DEF TxFormat
  <1>5. CASE TxAppend
    <2>1. current_client_socket \in Clients /\ tx_offset \in {0, 1}
      BY <1>0, <1>5 DEF TxAppend
    <2>2. /\ http_response_body' \in [1..BodySize -> Clients \cup {NUL}]
          /\ http_response_body'[BodySize] = NUL
      BY <1>5, <2>1, FormattedType DEF TxAppend
    <2>3. tx_offset' \in 0..(BodySize - 1) /\ (tx' = "rows" => tx_offset' < BodySize - 1)
      BY <1>5, <2>1 DEF TxAppend
    <2>4. tx' \in TxStates /\ tx_code' \in Codes
      BY <1>5 DEF TxAppend
    <2> QED BY <1>5, <2>2, <2>3, <2>4 DEF TxAppend
  <1>6. CASE TxStrlen
    BY <1>0, <1>6, StrlenRange DEF TxStrlen
  <1>7. CASE TxSendHeader
    BY <1>0, <1>7 DEF TxSendHeader, SendHeader
  <1>8. CASE TxSendBody
    BY <1>0, <1>8 DEF TxSendBody, SendBody
  <1>9. CASE TxClose
    BY <1>0, <1>9 DEF TxClose, Close
  <1>10. CASE TxFree
    BY <1>0, <1>10 DEF TxFree
  <1> HIDE DEF TypeInv
  <1> QED BY <1>1, <1>2, <1>3, <1>4, <1>5, <1>6, <1>7, <1>8, <1>9, <1>10 DEF Tx

LEMMA StepTypeInv == IndInv /\ TypeInv /\ [Next]_vars => TypeInv'
  <1> SUFFICES ASSUME IndInv, TypeInv, [Next]_vars PROVE TypeInv'
    OBVIOUS
  <1>1. CASE Rx
    BY <1>1, RxTypes
  <1>2. CASE Tx
    BY <1>2, TxTypes
  <1>3. CASE \E c \in Clients : Connect(c) \/ Arrive(c)
    <2>1. PICK c \in Clients : Connect(c) \/ Arrive(c)
      BY <1>3
    <2>2. CASE Connect(c)
      BY <2>2 DEF Connect, TypeInv, TypeOK, sharedVars, rxVars, txVars
    <2>3. CASE Arrive(c)
      <3>1. inbox' \in [Clients -> Texts]
        BY <2>3 DEF Arrive, TypeInv, TypeOK, Texts
      <3> QED BY <2>3, <3>1 DEF Arrive, TypeInv, TypeOK, sharedVars, rxVars, txVars
    <2> QED BY <2>1, <2>2, <2>3
  <1>4. CASE UNCHANGED vars
    BY <1>4 DEF vars, netVars, sharedVars, rxVars, txVars, TypeInv, TypeOK
  <1> QED BY <1>1, <1>2, <1>3, <1>4 DEF Next

\* Every variable of the two tasks keeps its type, for any number of clients.
THEOREM TypeCorrect == Spec => []TypeOK
  <1>1. Spec => []TypeInv
    BY InitTypeInv, StepTypeInv, Invariance, PTL DEF Spec
  <1> QED BY <1>1, PTL DEF TypeInv
=============================================================================
