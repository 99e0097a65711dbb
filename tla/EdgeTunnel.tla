----------------------------- MODULE EdgeTunnel -----------------------------
(***************************************************************************)
(* The WebSocket tunnel through an authenticating edge: the CLI's local    *)
(* proxy and the gateway's endpoint each copy bytes between a stream and   *)
(* the WebSocket with two tasks, and when one of the two ends the other is *)
(* aborted. A byte is represented by its being sent; a stream is how many  *)
(* bytes are in it. Up is from the client to the service.                  *)
(***************************************************************************)
EXTENDS Naturals

CONSTANT MaxBytes      \* bytes each side sends

ASSUME EdgeAssumption == MaxBytes \in Nat

VARIABLES
    client,    \* [sent, got, closed, eof]: the gRPC channel of the CLI
    service,   \* the same for the gateway's in-memory connection
    proxy,     \* the CLI's tasks: [up, down], each "run" or "over"
    endpoint,  \* the gateway's tasks
    tcpUp, tcpDown,        \* bytes between client and proxy
    wsUp, wsDown,          \* frames in the WebSocket
    memUp, memDown,        \* bytes between endpoint and service
    late       \* history: the client closed, or wrote to a service that had left

tunnelVars == <<client, service, proxy, endpoint, tcpUp, tcpDown, wsUp, wsDown, memUp, memDown, late>>

TunnelInit ==
    /\ client = [sent |-> 0, got |-> 0, closed |-> FALSE, eof |-> FALSE] /\ service = client
    /\ proxy = [up |-> "run", down |-> "run"] /\ endpoint = proxy
    /\ tcpUp = 0 /\ tcpDown = 0 /\ wsUp = 0 /\ wsDown = 0 /\ memUp = 0 /\ memDown = 0
    /\ late = FALSE

Over == [up |-> "over", down |-> "over"]

(* The two ends.                                                           *)
ClientSends ==
    /\ ~client.closed /\ ~client.eof /\ client.sent < MaxBytes
    /\ client' = [client EXCEPT !.sent = @ + 1]
    /\ tcpUp' = IF proxy = Over THEN tcpUp ELSE tcpUp + 1
    /\ UNCHANGED <<service, proxy, endpoint, tcpDown, wsUp, wsDown, memUp, memDown, late>>

ClientReads ==
    /\ ~client.closed
    /\ \/ tcpDown > 0 /\ tcpDown' = tcpDown - 1 /\ client' = [client EXCEPT !.got = @ + 1]
       \/ tcpDown = 0 /\ proxy = Over /\ ~client.eof
          /\ client' = [client EXCEPT !.eof = TRUE] /\ UNCHANGED tcpDown
    /\ UNCHANGED <<service, proxy, endpoint, tcpUp, wsUp, wsDown, memUp, memDown, late>>

ClientCloses ==
    /\ ~client.closed /\ client' = [client EXCEPT !.closed = TRUE] /\ late' = TRUE
    /\ UNCHANGED <<service, proxy, endpoint, tcpUp, tcpDown, wsUp, wsDown, memUp, memDown>>

ServiceSends ==
    /\ ~service.closed /\ service.sent < MaxBytes /\ endpoint # Over
    /\ service' = [service EXCEPT !.sent = @ + 1] /\ memDown' = memDown + 1
    /\ UNCHANGED <<client, proxy, endpoint, tcpUp, tcpDown, wsUp, wsDown, memUp, late>>

ServiceReads ==
    /\ ~service.closed
    /\ \/ memUp > 0 /\ memUp' = memUp - 1 /\ service' = [service EXCEPT !.got = @ + 1]
       \/ memUp = 0 /\ endpoint = Over /\ service' = [service EXCEPT !.eof = TRUE, !.closed = TRUE]
          /\ UNCHANGED memUp
    /\ UNCHANGED <<client, proxy, endpoint, tcpUp, tcpDown, wsUp, wsDown, memDown, late>>

ServiceCloses ==
    /\ ~service.closed /\ service' = [service EXCEPT !.closed = TRUE]
    /\ UNCHANGED <<client, proxy, endpoint, tcpUp, tcpDown, wsUp, wsDown, memUp, memDown, late>>

----------------------------------------------------------------------------
(* copy_tcp_to_ws: a send fails once the endpoint has left. The end of     *)
(* either task ends the connection, with a close frame or without.         *)
copy_tcp_to_ws ==
    /\ proxy.up = "run"
    /\ \/ tcpUp > 0 /\ endpoint # Over /\ tcpUp' = tcpUp - 1 /\ wsUp' = wsUp + 1
          /\ UNCHANGED <<proxy, late>>
       \/ tcpUp > 0 /\ endpoint = Over /\ proxy' = Over /\ late' = TRUE /\ UNCHANGED <<tcpUp, wsUp>>
       \/ tcpUp = 0 /\ client.closed /\ proxy' = Over /\ UNCHANGED <<tcpUp, wsUp, late>>
    /\ UNCHANGED <<client, service, endpoint, tcpDown, wsDown, memUp, memDown>>

(* copy_ws_to_tcp.                                                         *)
copy_ws_to_tcp ==
    /\ proxy.down = "run"
    /\ \/ wsDown > 0 /\ ~client.closed /\ wsDown' = wsDown - 1 /\ tcpDown' = tcpDown + 1
          /\ UNCHANGED proxy
       \/ wsDown > 0 /\ client.closed /\ proxy' = Over /\ UNCHANGED <<wsDown, tcpDown>>
       \/ wsDown = 0 /\ endpoint = Over /\ proxy' = Over /\ UNCHANGED <<wsDown, tcpDown>>
    /\ UNCHANGED <<client, service, endpoint, tcpUp, wsUp, memUp, memDown, late>>

(* Mutant: the end of the service is noticed before its last bytes.        *)
copy_reader_to_ws_eager ==
    /\ endpoint.down = "run"
    /\ \/ memDown > 0 /\ proxy # Over /\ memDown' = memDown - 1 /\ wsDown' = wsDown + 1
          /\ UNCHANGED endpoint
       \/ memDown > 0 /\ proxy = Over /\ endpoint' = Over /\ UNCHANGED <<memDown, wsDown>>
       \/ service.closed /\ endpoint' = Over /\ UNCHANGED <<memDown, wsDown>>
    /\ UNCHANGED <<client, service, proxy, tcpUp, tcpDown, wsUp, memUp, late>>

(* copy_reader_to_ws, from the service.                                    *)
copy_reader_to_ws ==
    /\ endpoint.down = "run"
    /\ \/ memDown > 0 /\ proxy # Over /\ memDown' = memDown - 1 /\ wsDown' = wsDown + 1
          /\ UNCHANGED endpoint
       \/ memDown > 0 /\ proxy = Over /\ endpoint' = Over /\ UNCHANGED <<memDown, wsDown>>
       \/ memDown = 0 /\ service.closed /\ endpoint' = Over /\ UNCHANGED <<memDown, wsDown>>
    /\ UNCHANGED <<client, service, proxy, tcpUp, tcpDown, wsUp, memUp, late>>

(* copy_ws_to_writer, to the service.                                      *)
copy_ws_to_writer ==
    /\ endpoint.up = "run"
    /\ \/ wsUp > 0 /\ ~service.closed /\ wsUp' = wsUp - 1 /\ memUp' = memUp + 1
          /\ UNCHANGED <<endpoint, late>>
       \/ wsUp > 0 /\ service.closed /\ endpoint' = Over /\ late' = TRUE /\ UNCHANGED <<wsUp, memUp>>
       \/ wsUp = 0 /\ proxy = Over /\ endpoint' = Over /\ UNCHANGED <<wsUp, memUp, late>>
    /\ UNCHANGED <<client, service, proxy, tcpUp, tcpDown, wsDown, memDown>>

TunnelNext ==
    \/ ClientSends \/ ClientReads \/ ClientCloses
    \/ ServiceSends \/ ServiceReads \/ ServiceCloses
    \/ copy_tcp_to_ws \/ copy_ws_to_tcp \/ copy_reader_to_ws \/ copy_ws_to_writer

EdgeSpec == TunnelInit /\ [][TunnelNext]_tunnelVars

----------------------------------------------------------------------------
(* When the client sees the end of the stream it has everything that the   *)
(* service sent, unless it closed first or bytes of its own were still on  *)
(* their way when the service left: their failed write, on either side,    *)
(* aborts the task that brings the rest.                                   *)
TunnelDelivers == client.eof /\ ~late => client.got = service.sent
=============================================================================
