---------------------------- MODULE SocketServers ----------------------------
(***************************************************************************)
(* The socket servers and clients, the HTTP and websocket programs and the *)
(* setup of the XDP programs, as procedures.  What a server does for one   *)
(* connection is a procedure of its own; its main ends in the loop that    *)
(* calls it.  A server whose set-up calls fail leaves by exit().           *)
(***************************************************************************)
EXTENDS Steps, Sequences

exit == <<Exit>>

\* socket, then setsockopt, bind, fcntl and listen as far as the server calls them.
Listening(sock, fail) ==
    <<Get(sock, {}, fail), Try({sock}, fail), Try({sock}, fail)>>

\* dev-sock-tcp, dev-sock-udp and dev-sock-unix.
tcp_server == [Proc(Listening("sockfd", exit) \o
                    << Get("connfd", {"sockfd"}, exit), Loop(<<Use({"connfd"})>>),
                       Close("sockfd"), Ret("void") >>) EXCEPT !.leaks = {"connfd"}]
tcp_client == Proc(<< Get("sockfd", {}, exit), Try({"sockfd"}, exit), Loop(<<Use({"sockfd"})>>),
                      Close("sockfd"), Ret("void") >>)
udp_server == [Proc(<< Get("socket_desc", {}, failed), Try({"socket_desc"}, failed),
                       Try({"socket_desc"}, failed), Try({"socket_desc"}, failed),
                       Close("socket_desc"), Ret("ok") >>) EXCEPT !.leaks = {"socket_desc"}]
udp_client == [Proc(<< Get("socket_desc", {}, failed), Try({"socket_desc"}, failed),
                       Try({"socket_desc"}, failed), Close("socket_desc"), Ret("ok") >>)
                  EXCEPT !.leaks = {"socket_desc"}]
procc == Proc(<<May("server_socket", {}), Try({}, exit), Close("server_socket"), Exit>>)
procd == Proc(<< May("server_socket", {}),
                 Loop(<<May("client_socket", {}), Free("client_socket")>>) >>)

\* The clients of the select, poll, epoll and threaded servers.  A socket that cannot be
\* connected is kept, and one that is not connected yet is used as if it were.
connect_with_timeout ==
    << Get("SOCK_FD", {}, failed), Try({}, failed), Try({"SOCK_FD"}, failed),
       Try({"SOCK_FD"}, failed), Try({"SOCK_FD"}, failed), Try({"SOCK_FD"}, failed) >>
select_connect  == connect_with_timeout
epoll_connect   == connect_with_timeout
pool_connect    == connect_with_timeout
tcp_thr_connect == connect_with_timeout
Client(connect) ==
    [Proc(connect \o <<Loop(<<Use({"SOCK_FD"})>>), Close("SOCK_FD"), Ret("ok")>>)
        EXCEPT !.leaks = {"SOCK_FD"}]

\* dev-sock-select-tcp: a full table is meant to refuse the connection, and ends the server,
\* as close returns 0 when it succeeds.
select_comm == <<Opt(<<Close("sd"), Clear("sd")>>)>>
select_server ==
    Proc(Listening("sockfd", exit) \o
         <<Loop(<< Opt(<<Get("sd", {"sockfd"}, exit), Opt(<<Close("sd"), Exit>>)>>),
                   If("sd", select_comm) >>)>>)

\* dev-sock-poll-tcp: a socket that is not listening is waited for all the same, and the
\* descriptor of a client that has left is forgotten.
create_socket(fail) == <<May("server_socket", {}), Try({}, fail)>>
wait_client ==
    [Proc(<<May("client_socket", {"server_socket"}), Try({}, void), Loop(<<Use({"client_socket"})>>),
            Clear("client_socket"), Ret("void")>>)
        EXCEPT !.args = {"server_socket"}, !.leaks = {"client_socket"}]
poll_server == Proc(create_socket(<<Loop(<<Use({})>>)>>) \o <<Loop(<<Use({"server_socket"})>>)>>)

-----------------------------------------------------------------------------
\* dev-sock-epoll-tcp: EPLFD holds the connections; main closes one that has an error,
\* handle_client one that has ended.
EpollServer ==
    Listening("SOCKFD", exit) \o
    << Get("EPLFD", {}, exit), Try({"EPLFD", "SOCKFD"}, exit), May("CLIENT_SOCKET", {}) >>
epoll_handle_conn ==
    [Proc(<< Get("infd", {"SOCKFD"}, void), Try({"infd"}, exit), Try({"infd", "EPLFD"}, exit),
             Give("infd"), Ret("void") >>) EXCEPT !.args = {"SOCKFD", "EPLFD"}]
epoll_handle_client ==
    [Proc(<<Use({"infd"}), Opt(<<Close("infd")>>), Ret("void")>>) EXCEPT !.args = {"infd"}]
epoll_server == Proc(EpollServer \o <<Loop(<<Use({"EPLFD", "CLIENT_SOCKET"})>>)>>)

\* dev-sock-tcp-thread: the same, by port.  All MAX_CONN entries are looked at whatever
\* epoll_wait returned, so that a closed descriptor is handled again.
thandle_conn == epoll_handle_conn
thandle_client == <<Use({"infd"}), Opt(<<Close("infd")>>)>>
tcp_Worker ==
    [Proc(<<May("fp", {})>> \o EpollServer \o
          <<May("infd", {"SOCKFD"}), Loop(<<If("infd", thandle_client)>>)>>)
        EXCEPT !.dangling = {<<"main", "infd">>}]
tcp_thr_main == Proc(<< Try({}, failed), Loop(<<Try({}, failed)>>), Ret("ok") >>)

\* dev-sock-epoll-tcp-async-pool, for one slot: the poller hands the buffer to the worker,
\* the worker hands its copy to the writer.  The writer releases the slot's array, not the
\* buffer it has copied, and the array is used again for the next one.
to_worker ==
    <<Lock("lock"), Use({"data"}), May("slot", {"newbuff"}), Give("newbuff"), Unlock("lock")>>
to_writer ==
    <<Lock("wlock"), Use({"wdata"}), May("wslot", {"copy"}), Give("copy"), Unlock("wlock")>>
worker ==
    << Lock("lock"),
       If("slot", << Use({"data"}), May("copy", {"slot"}), Use({"copy"}), Free("slot"),
                     Clear("slot") >>),
       Unlock("lock"), If("copy", to_writer) >>
writer ==
    << Lock("wlock"),
       If("wslot", << Use({"wdata"}), May("wcopy", {"wslot"}), Use({"wcopy"}), Close("wdata"),
                      Clear("wslot"), Free("wcopy"), Clear("wcopy") >>),
       Unlock("wlock") >>
pool_handle_client == <<May("newbuff", {}), Use({"newbuff"})>> \o to_worker
pool_handle_conn == epoll_handle_conn
pool_server ==
    [Proc(EpollServer \o
          << May("data", {}), May("wdata", {}), Spawn("worker", <<Loop(worker)>>),
             Spawn("writer", <<Loop(writer)>>), Loop(pool_handle_client) >>)
        EXCEPT !.dangling = {<<"worker", "wdata">>}]

\* dev-sock-tls-thread, the server.  A handshake that fails keeps its descriptor, a full
\* table its session, and every call of handle_client a file.
create_context == <<Get("ctx", {}, exit)>>
configure_context == <<Try({"ctx"}, exit), Try({"ctx"}, exit)>>
set_tlsch == <<Opt(<<Give("ssl"), Give("ctx")>>)>>
release_tlsch == <<Use({"ssl"}), Close("ssl"), Close("ctx")>>
tls_handle_conn ==
    [Proc(<<Get("infd", {"SOCKFD"}, void)>> \o create_context \o configure_context \o
          << May("ssl", {"ctx"}), Use({"ssl"}),
             Try({"ssl"}, <<Free("ssl"), Free("ctx"), Ret("void")>>), Try({"infd"}, exit) >> \o
          set_tlsch \o <<Try({"infd"}, exit), Give("infd"), Ret("void")>>)
        EXCEPT !.args = {"SOCKFD"}, !.leaks = {"infd", "ssl", "ctx"}]
tls_handle_client ==
    [Proc(<< May("fp", {}), Use({"ssl"}), Use({"fp"}), Use({"ssl"}),
             Opt(release_tlsch \o <<Close("infd")>>), Ret("void") >>)
        EXCEPT !.args = {"infd", "ssl", "ctx"}, !.leaks = {"fp"}]
tls_thr_main == Proc(EpollServer \o <<Loop(<<Use({"EPLFD", "CLIENT_SOCKET"})>>)>>)

-----------------------------------------------------------------------------
\* dev-sock-io-uring-http, for one connection: the request of each event belongs to the
\* ring until the event.  An empty read and a method other than GET keep the socket.
add_accept_request == <<May("accept_req", {}), Use({"accept_req"})>>
add_read_request == <<May("read_req", {}), May("iov_base", {}), Use({"read_req", "iov_base"})>>
_send_static_string_content ==
    <<Get("write_req", {}, exit), Get("write_iov", {}, exit), Use({"write_req", "write_iov"})>>
handle_client_request(get) == <<Try({"iov_base"}, exit), Opt(_send_static_string_content \o get)>>
server_loop ==
    LET read == FreeEach(<<"iov_base", "read_req">>)
        written == read \o <<Free("write_iov"), Close("client_socket"), Free("write_req"), Ret("void")>>
    IN  [Proc(<< Get("client_socket", {"accept_req"}, exit), Free("accept_req") >> \o
              add_accept_request \o add_read_request \o
              << Try({"read_req"}, exit), Opt(void) >> \o handle_client_request(written) \o
              read \o void)
            EXCEPT !.args = {"accept_req"}, !.leaks = {"client_socket", "read_req", "iov_base"}]
uring_main == Proc(Listening("sock", exit) \o <<May("ring", {})>> \o add_accept_request \o
                   <<Loop(<<Use({"ring"})>>)>>)

\* dev-net-http-server and dev-net-http-request.
SendJSON == <<May("json_str", {"obj"}), Use({"json_str"}), Free("json_str")>>
RestGET ==
    <<Get("obj", {}, failed), Use({"obj"})>> \o SendJSON \o <<Close("obj"), Ret("ok")>>
RestHandler == Proc(<<Try({}, failed), Opt(RestGET), Ret("error")>>)
http_server == [Proc(<< May("library", {}), Get("ctx", {}, failed), Use({"ctx"}),
                        Loop(<<Use({"ctx"})>>), Close("ctx"), Ret("ok") >>)
                   EXCEPT !.leaks = {"library"}]
Request(after) == \* a transfer that fails is printed and reported as done
    <<Get("curl", {}, failed), Try({"curl"}, <<Close("curl")>> \o after), Close("curl")>> \o after
request_get(after) == Request(after)
request_post == Request(ok)
request_main == [Proc(request_get(request_post)) EXCEPT !.silent = TRUE]

\* dev-net-websocket: what the server keeps for a connection, and the client, whose
\* handler runs until the connection is closed.
ws_connection == Proc(<< Get("wsCliCtx", {}, failed), Use({"wsCliCtx"}),
                         Loop(<<Use({"wsCliCtx"})>>), Close("wsCliCtx"), Ret("ok") >>)
ws_server == Proc(<< May("library", {}), Get("ctx", {}, <<Free("library"), Ret("error")>>),
                     Loop(<<Use({"ctx"})>>) >>)
websocket_client_data_handler ==
    <<Use({"pclient_data"}), Opt(<<May("msgs", {}), Use({"msgs"}), May("data", {}), Use({"data"})>>)>>
run_websocket_client ==
    [Proc(<< May("pclient_data", {}), Use({"pclient_data"}), Get("client_conn", {}, void),
             Spawn("handler", websocket_client_data_handler),
             Loop(<<Use({"client_conn", "pclient_data"})>>), Join("handler"),
             Close("client_conn"), If("msgs", <<Free("data"), Free("msgs")>>),
             Close("pclient_data"), Ret("void") >>) EXCEPT !.leaks = {"pclient_data"}]

-----------------------------------------------------------------------------
\* var-ncat.  The client's reader starts when the socket is connected and may still read
\* from it when the client closes it.
NCAT_reader ==
    <<Loop(<<Use({"sockfd"}), May("reply", {}), Use({"sockfd"}), Use({"reply"}), Free("reply")>>)>>
NCAT_client ==
    LET cli_out(v) == <<Free("sockfd"), If("data", <<Free("data")>>), Ret(v)>>
        message == <<May("data", {}), Use({"data"})>>
    IN  [Proc(<< Get("sockfd", {}, cli_out("error")), Try({"sockfd"}, cli_out("error")),
                 Spawn("reader", NCAT_reader),
                 Loop(message \o <<Use({"sockfd"}), Free("data"), Clear("data")>>) >> \o
              message \o cli_out("ok"))
            EXCEPT !.dangling = {<<"reader", "sockfd">>}]

\* What is read from the standard input is served.  When the reader does not report in
\* time its buffer is taken from it, whether or not it has finished.
NCAT_loader ==
    << May("serve_content", {}), Use({"serve_content"}), Loop(<<Use({"serve_content"})>>),
       Opt(<<Use({"serve_content", "server_sig"})>>) >>
NCAT_listen_and_serve(after) ==
    LET srv_out == <<If("data", <<Free("data")>>)>> \o after
        served == <<May("data", {}), Use({"data", "serve_content"}), Free("data")>>
        message == <<May("data", {}), Use({"data"}), Free("data"), Clear("data")>>
    IN  << Get("sockfd", {}, srv_out), Try({"sockfd"}, srv_out),
           Loop(<<May("connfd", {"sockfd"}),
                  If("connfd", << If("serve_content", served), Clear("data"), Loop(message),
                                  Opt(<<May("data", {}), Use({"data"})>>), Close("connfd") >>)>>) >>
NCAT_listen ==
    LET NCAT_free == <<If("serve_content", <<Free("serve_content")>>), Ret("error")>>
    IN  [Proc(<< Get("server_sig", {}, failed), Try({"server_sig"}, failed),
                 Spawn("loader", NCAT_loader),
                 Opt(<<If("serve_content", <<Free("serve_content"), Clear("serve_content")>>)>>),
                 Try({}, NCAT_free) >> \o NCAT_listen_and_serve(ok))
            EXCEPT !.leaks = {"server_sig", "serve_content", "sockfd"},
                   !.dangling = {<<"loader", "serve_content">>}, !.silent = TRUE]

\* var-ten-k: the connections, the events and the epoll descriptor stay behind.
Accepted == <<May("client_fd", {"sockfd"})>>
run_select == <<Loop(Accepted)>>
run_poll == <<May("pollfds", {}), Use({"pollfds"}), Loop(Accepted), Free("pollfds")>>
run_epoll(fail) ==
    <<Get("eplfd", {}, fail), May("evs", {}), Use({"evs"}), Try({"eplfd"}, fail),
      Loop(Accepted), Free("evs")>>
tenk_server ==
    LET end(v) == <<Free("client_buff"), Ret(v)>>
    IN  [Proc(<<Try({}, failed), May("client_buff", {}), Use({"client_buff"})>> \o
              Listening("sockfd", failed) \o <<Opt(run_select \o end("ok")), Opt(run_poll \o end("ok"))>> \o
              run_epoll(end("error")) \o end("ok"))
            EXCEPT !.leaks = {"client_buff", "sockfd", "client_fd", "eplfd", "evs"}]
\* main goes on to the writers when a connection cannot be made, and returns -1 in any case.
run_client_thread == <<Loop(<<Use({})>>)>>
tenk_client ==
    LET run == <<Spawn("writer", run_client_thread), Join("writer"), Ret("error")>>
    IN  [Proc(<<Try({}, failed), Loop(<<Get("connfd", {}, run), Try({"connfd"}, run)>>)>> \o run)
            EXCEPT !.leaks = {"connfd"}]

-----------------------------------------------------------------------------
\* dev-net-ebpf-xdp/map and dev-net-ebpf-xdp/packet.
remove_xdp_program(after) == <<Get("mp", {}, after), Try({"mp"}, after), Close("attached")>> \o after
xdp_map_main ==
    [Proc(<<Try({}, failed), May("prog", {}), Get("attached", {}, failed),
            Loop(<<May("mapfd", {})>>), Try({}, failed)>> \o remove_xdp_program(ok))
        EXCEPT !.leaks = {"prog", "attached", "mapfd", "mp"}, !.silent = TRUE]
poll_stats == <<Try({}, ok), Loop(<<Use({})>>)>>
xdp_packet_main ==
    [Proc(<<Try({}, failed), Get("prog", {}, failed), Get("attached", {"prog"}, failed),
            Try({"prog"}, failed)>> \o poll_stats)
        EXCEPT !.leaks = {"prog", "attached"}, !.silent = TRUE]

\* dev-net-ebpf-xdp/xsk: one pool for two ports (XskForward is what the thread does with
\* them).  main releases the pool with the first port, and again with the second.
bpool_init(fail) ==
    LET unmap == <<Close("addr"), Close("bp")>> \o fail
    IN  << Try({}, fail), Get("bp", {}, fail), Try({"bp"}, <<Close("bp")>> \o fail),
           Get("addr", {}, <<Close("bp")>> \o fail), Get("umem", {"addr"}, unmap) >>
bpool_free == <<If("bp", <<Use({"bp"}), Close("umem"), Close("addr"), Close("bp")>>)>>
bcache_free(bc) == <<If(bc, <<Use({"bp"}), Close(bc)>>)>>
port_free(p, bc, xsk) ==
    <<If(p, <<Use({p}), If(xsk, <<Close(xsk)>>)>> \o bcache_free(bc) \o <<Close(p)>>)>>
bcache_init(bc, fail) == <<Get(bc, {"bp"}, fail)>>
PortInit(p, bc, xsk, fail) ==
    LET undo == port_free(p, bc, xsk) \o fail
    IN  <<Get(p, {}, fail)>> \o bcache_init(bc, undo) \o
        <<Try({bc}, undo), Get(xsk, {"bp"}, undo), Try({xsk}, fail), Use({bc, p})>>
xsk_main ==
    LET forward == Loop(<<Use({"left", "right", "bp"})>>)
    IN  [Proc(<< May("pools", {}), Use({"pools"}), Try({}, failed), Get("prog_l", {}, failed),
                 Get("prog_r", {}, failed), Get("attached", {"prog_l", "prog_r"}, failed),
                 Try({}, ok) >> \o bpool_init(failed) \o
              PortInit("left", "bc_l", "xsk_l", failed) \o
              PortInit("right", "bc_r", "xsk_r", failed) \o
              << Try({}, failed), Spawn("thread", <<forward>>), Join("thread") >> \o
              port_free("left", "bc_l", "xsk_l") \o bpool_free \o
              port_free("right", "bc_r", "xsk_r") \o bpool_free \o
              <<Free("pools")>> \o remove_xdp_program(ok))
            EXCEPT !.leaks = {"pools", "prog_l", "prog_r", "attached", "bp", "addr", "umem", "left",
                              "right", "bc_l", "bc_r", "xsk_l", "xsk_r"},
                   !.dangling = {<<"main", "bp">>}, !.silent = TRUE]

SocketProcs ==
    [tcp_server |-> tcp_server, tcp_client |-> tcp_client, udp_server |-> udp_server,
     udp_client |-> udp_client, procc |-> procc, procd |-> procd,
     poll_client |-> Client(connect_with_timeout), select_client |-> Client(select_connect),
     epoll_client |-> Client(epoll_connect), pool_client |-> Client(pool_connect),
     tcp_thr_client |-> Client(tcp_thr_connect), select_server |-> select_server,
     wait_client |-> wait_client, poll_server |-> poll_server,
     epoll_handle_conn |-> epoll_handle_conn, epoll_handle_client |-> epoll_handle_client,
     epoll_server |-> epoll_server, thandle_conn |-> thandle_conn, tcp_Worker |-> tcp_Worker,
     tcp_thr_main |-> tcp_thr_main, pool_handle_conn |-> pool_handle_conn,
     pool_server |-> pool_server, tls_handle_conn |-> tls_handle_conn,
     tls_handle_client |-> tls_handle_client, tls_thr_main |-> tls_thr_main,
     server_loop |-> server_loop, uring_main |-> uring_main, RestHandler |-> RestHandler,
     http_server |-> http_server, request_main |-> request_main,
     ws_connection |-> ws_connection, ws_server |-> ws_server,
     run_websocket_client |-> run_websocket_client, NCAT_client |-> NCAT_client,
     NCAT_listen |-> NCAT_listen, tenk_server |-> tenk_server, tenk_client |-> tenk_client,
     xdp_map_main |-> xdp_map_main, xdp_packet_main |-> xdp_packet_main, xsk_main |-> xsk_main]
=============================================================================
