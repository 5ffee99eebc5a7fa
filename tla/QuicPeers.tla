------------------------------ MODULE QuicPeers ------------------------------
(***************************************************************************)
(* The QUIC clients and servers as procedures.  msquic calls the callbacks *)
(* of one connection in order, in a thread of its own: it accepts the      *)
(* connection, then the events of the connection and of its one stream     *)
(* follow.  Closing the listener waits for its callback, closing the       *)
(* registration for the connections.                                       *)
(***************************************************************************)
EXTENDS Steps, Sequences

\* Slips a programmer might make in the definitions that follow.
BufferForgotten == <<Use({"Stream"})>>

-----------------------------------------------------------------------------
\* dev-sock-quic.
SendComplete == <<Free("SendBuffer")>>

ServerSend(after) ==
    << Get("SendBuffer", {}, <<Use({"Stream"})>> \o after),
       Try({"Stream", "SendBuffer"}, <<Free("SendBuffer"), Use({"Stream"})>> \o after) >> \o
    SendComplete \o after

\* Data, then a shutdown by the peer, which is answered, or an abort.
ServerStreamCallback(after) ==
    LET done == <<Close("Stream")>> \o after
    IN  << Get("Stream", {}, after), Loop(<<Use({"Stream"})>>),
           Opt(ServerSend(done)), Use({"Stream"}) >> \o done

ServerConnectionCallback ==
    <<Use({"Connection"}), Loop(<<Use({"Connection"})>>)>> \o
    ServerStreamCallback(<<Close("Connection"), Ret("void")>>)

\* A connection whose configuration is refused stays msquic's.
ServerListenerCallback ==
    << Get("Connection", {}, void),
       Try({"Connection", "quic_configuration"}, <<Give("Connection")>> \o void),
       Spawn("worker", ServerConnectionCallback), Ret("void") >>

ServerLoadConfiguration(fail) ==
    <<Get("quic_configuration", {"quic_registration"}, fail), Try({"quic_configuration"}, fail)>>

ListenerEnd(rest) == <<If("Listener", <<Join("accept"), Close("Listener")>>)>> \o rest

\* What RunServer does not manage is only printed: main returns its own Status.
QuicEnd(v) ==
    << If("quic_api",
          << If("quic_configuration", <<Close("quic_configuration")>>),
             If("quic_registration", <<Join("worker"), Close("quic_registration")>>),
             Close("quic_api") >>),
       Ret(v) >>

RunServer ==
    LET end == ListenerEnd(QuicEnd("ok"))
    IN  ServerLoadConfiguration(QuicEnd("ok")) \o
        << Get("Listener", {"quic_registration"}, end), Try({"Listener"}, end),
           Spawn("accept", ServerListenerCallback) >> \o end

QuicOpen == << Get("quic_api", {}, QuicEnd("error")),
               Get("quic_registration", {"quic_api"}, QuicEnd("error")) >>

quic_server_main == [Proc(QuicOpen \o RunServer) EXCEPT !.silent = TRUE]

\* The client's stream is shut down with its connection, and closed then.
ClientStreamCallback(after) == <<If("Stream", <<Use({"Stream"}), Close("Stream")>>)>> \o after

ClientSend(after) ==
    LET fail == <<Use({"Connection"})>>
        shut == fail \o ClientStreamCallback(after)
    IN  << Get("Stream", {"Connection"}, fail \o after),
           Try({"Stream"}, <<Close("Stream")>> \o fail \o after),
           Get("SendBuffer", {}, shut),
           Try({"Stream", "SendBuffer"}, <<Free("SendBuffer")>> \o shut) >> \o
        SendComplete \o ClientStreamCallback(after)

ClientConnectionCallback ==
    LET done == <<Loop(<<Use({"Connection"})>>), Close("Connection"), Ret("void")>>
    IN  <<Opt(ClientSend(done))>> \o done

ClientLoadConfiguration(fail) == ServerLoadConfiguration(fail)

RunClient ==
    ClientLoadConfiguration(QuicEnd("ok")) \o
    << Get("Connection", {"quic_registration"}, QuicEnd("ok")),
       Try({"Connection", "quic_configuration"}, <<Close("Connection")>> \o QuicEnd("ok")),
       Spawn("worker", ClientConnectionCallback) >> \o QuicEnd("ok")

quic_client_main == [Proc(QuicOpen \o RunClient) EXCEPT !.silent = TRUE]

-----------------------------------------------------------------------------
\* dev-net-quic-bench/quic.  The buffer of the acknowledgement is allocated for each
\* connection and never freed; without it an acknowledgement follows NULL.
server_complete == <<Use({})>>
server_send_ack == <<Use({"stream", "server_buffer_ack"})>>
server_recv == <<Use({"stream"}), Opt(server_send_ack)>>
server_stream_cb(after) ==
    << Get("stream", {"connection"}, after), Loop(server_recv), Opt(<<Use({"stream"})>>),
       Close("stream") >> \o after

server_conn_cb ==
    <<May("server_buffer_ack", {}), Use({"connection"})>> \o
    server_stream_cb(<<Spawn("complete", server_complete), Close("connection"), Ret("void")>>)

server_listen_cb ==
    << Get("connection", {}, void),
       Try({"connection", "quic_configuration"}, <<Give("connection")>> \o void),
       Spawn("worker", server_conn_cb), Ret("void") >>

\* FALSE is not below 0: run_server goes on without a configuration.
server_conf(after) ==
    << Get("quic_configuration", {"quic_registration"}, after),
       Try({"quic_configuration"}, after) >> \o after

bench_run_server ==
    LET end == ListenerEnd(QuicEnd("ok"))
    IN  server_conf(<< Get("Listener", {"quic_registration"}, end), Try({"Listener"}, end),
                       Spawn("accept", server_listen_cb), Loop(<<Use({})>>) >> \o end)

quic_bench_server ==
    [Proc(QuicOpen \o bench_run_server)
        EXCEPT !.leaks = {"server_buffer_ack"}, !.silent = TRUE]

\* The stream and the connection are closed when the connection is shut down, whatever
\* the sending thread is doing; the acknowledgement may never come.
client_stream_cb == <<Opt(<<Use({"stream"})>>), If("stream", <<Close("stream")>>)>>
client_recv_ack == <<Loop(<<Use({})>>)>>

\* All sends share one buffer, and msquic reads it until each of them is complete: also
\* after the send that failed has freed it.  Otherwise nobody does.
client_send ==
    LET fail == <<Use({"connection"}), Ret("void")>>
        sent(rest) ==
            <<Try({"stream", "send_buffer"}, <<Free("send_buffer")>> \o fail)>> \o rest
    IN  << Get("stream", {"connection"}, fail), Try({"stream"}, <<Close("stream")>> \o fail),
           Get("send_buffer", {}, fail) >> \o
        sent(<<Spawn("transport", <<Loop(<<Use({"send_buffer"})>>)>>)>>) \o
        <<Loop(sent(<<>>))>> \o client_recv_ack \o sent(void)

client_conn_cb ==
    << Use({"connection"}), Opt(<<Spawn("sender", client_send)>>) >> \o client_stream_cb \o
    << Close("connection"), Ret("void") >>

client_conf(fail) == ServerLoadConfiguration(fail)

bench_run_client ==
    client_conf(QuicEnd("ok")) \o
    << Get("connection", {"quic_registration"}, QuicEnd("ok")),
       Try({"connection", "quic_configuration"}, <<Close("connection")>> \o QuicEnd("ok")),
       Spawn("worker", client_conn_cb), Join("worker") >> \o QuicEnd("ok")

quic_bench_client ==
    [Proc(QuicOpen \o bench_run_client)
        EXCEPT !.leaks = {"send_buffer", "stream"},
               !.dangling = {"sender"} \X {"stream", "connection"} \union
                            {<<"worker", "stream">>, <<"transport", "send_buffer">>},
               !.silent = TRUE]

QuicProcs ==
    [quic_server |-> quic_server_main, quic_client |-> quic_client_main,
     quic_bench_server |-> quic_bench_server, quic_bench_client |-> quic_bench_client]
=============================================================================
