------------------------------ MODULE TlsPeers -------------------------------
(***************************************************************************)
(* The TLS and DTLS clients and servers as procedures.  A server's endless *)
(* loop ends in Exit: the process is stopped from outside.                 *)
(***************************************************************************)
EXTENDS Steps, Sequences

print_cn_name == <<Clear("utf8"), Opt(<<May("utf8", {})>>), Free("utf8")>>
print_san_name ==
    << Clear("names"), Clear("utf8"),
       Opt(<<May("names", {}),
             If("names", <<Loop(<<May("utf8", {"names"}), Free("utf8"), Clear("utf8")>>)>>)>>),
       Free("names"), Free("utf8") >>
verify_callback ==
    Proc(print_cn_name \o print_cn_name \o <<Opt(print_san_name), Ret("ok")>>)

\* The same three functions, copied into each of the other clients.
verify_callback_thread == verify_callback
verify_callback_bench  == verify_callback
dtls_verify_callback   == verify_callback
verify_callback_qs     == Proc(print_cn_name \o print_cn_name \o <<Ret("ok")>>)

-----------------------------------------------------------------------------
\* dev-sock-tls and dev-sock-tls-thread.  ASSERT ends the process, so that of the
\* cleanup at the end only the good case is ever reached.
Connected ==
    << Get("ctx", {}, <<Exit>>), Try({"ctx"}, <<Exit>>), Get("web", {"ctx"}, <<Exit>>),
       Try({"web"}, <<Exit>>), Try({"web"}, <<Exit>>), Try({"web"}, <<Exit>>),
       Get("out", {}, <<Exit>>), Try({"web"}, <<Exit>>), Try({"web"}, <<Exit>>),
       Get("cert", {"web"}, <<Exit>>), Free("cert"), Try({"web"}, <<Exit>>) >>
client_main ==
    Proc(Connected \o <<Loop(<<Use({"web"})>>)>> \o FreeEach(<<"out", "web", "ctx">>) \o
         <<Ret("ok")>>)

\* A write and a read, each retried until its deadline, for ever.
ConnectedRetry == Connected
client_thread_main ==
    Proc(ConnectedRetry \o
         <<Loop(<<Use({"web"}), Loop(<<Use({"web"})>>), Use({"web"}), Loop(<<Use({"web"})>>)>>),
           Exit>>)

create_context == <<Get("ctx", {}, <<Exit>>)>>
configure_context == <<Try({"ctx"}, <<Exit>>), Try({"ctx"}, <<Exit>>)>>
create_socket == <<Get("s", {}, <<Exit>>), Try({"s"}, <<Exit>>), Try({"s"}, <<Exit>>)>>
comm == <<Use({"ssl"}), Loop(<<Use({"ssl"})>>)>>
server_main ==
    [Proc(create_context \o configure_context \o create_socket \o
          <<Loop(<<Get("client", {"s"}, <<Exit>>), May("ssl", {"ctx"}), Use({"ssl"}),
                   Try({"ssl"}, failed)>> \o comm \o
                 <<Use({"ssl"}), Free("ssl"), Close("client")>>),
            Exit>>)
        EXCEPT !.leaks = {"ctx", "s", "client", "ssl"}]

-----------------------------------------------------------------------------
\* dev-sock-tls-quantum-safe.  The handler follows the SSL object whenever the signal
\* comes: before it exists and after it was released too.  Neither side closes its
\* sockets, and a certificate that fails to verify ends the client with 0.
sigint_handler(ssl) == Spawn("sigint", <<Opt(<<Use({ssl})>>)>>)

run_tls_client(fail, out) ==
    << Get("s", {}, fail), Try({"s"}, fail), Try({"clientssl"}, fail),
       Try({"clientssl"}, fail), Get("cert", {"clientssl"}, fail), Free("cert"),
       Try({"clientssl"}, out),
       Loop(<<Try({"clientssl"}, fail), Loop(<<Use({"clientssl"})>>)>>) >> \o out

run_client ==
    LET out(v) == FreeEach(<<"clientctx", "clientssl", "libctx">>) \o <<Ret(v)>>
        fail == out("error")
    IN  << Get("clientctx", {"libctx"}, fail), Try({"clientctx"}, fail),
           Try({"clientctx"}, fail), Get("clientssl", {"clientctx"}, fail),
           Try({"clientssl"}, fail) >> \o run_tls_client(fail, out("ok"))

qs_client_main ==
    [Proc(<<sigint_handler("clientssl"), Get("libctx", {}, failed)>> \o run_client)
        EXCEPT !.leaks = {"s"}, !.dangling = {<<"sigint", "clientssl">>}, !.silent = TRUE]

run_tls_server(fail, out) ==
    << Get("s", {}, fail), Try({"s"}, fail), Try({"s"}, fail), Get("c", {"s"}, fail),
       Use({"serverssl"}), Try({"serverssl"}, fail),
       Loop(<<Loop(<<Try({"serverssl"}, fail)>>), Try({"serverssl"}, fail)>>) >> \o out

run_server ==
    LET out(v) == FreeEach(<<"serverctx", "serverssl", "libctx">>) \o <<Ret(v)>>
        fail == out("error")
    IN  << Get("serverctx", {"libctx"}, fail), Try({"serverctx"}, fail),
           Try({"serverctx"}, fail), Try({"serverctx"}, fail), Try({"serverctx"}, fail),
           Get("serverssl", {"serverctx"}, fail), Try({"serverssl"}, fail) >> \o
        run_tls_server(fail, out("ok"))

qs_server_main ==
    [Proc(<<sigint_handler("serverssl"), Get("libctx", {}, failed)>> \o run_server)
        EXCEPT !.leaks = {"s", "c"}, !.dangling = {<<"sigint", "serverssl">>}]

-----------------------------------------------------------------------------
\* dev-net-quic-bench/tls: every exit, the good one too, leaves its objects behind.
bench_client ==
    [Proc(<< Get("ctx", {}, failed), Try({"ctx"}, failed), Try({"ctx"}, failed),
             Get("ssl", {"ctx"}, failed), Get("sockfd", {}, failed), Get("rp", {}, failed),
             Try({"sockfd"}, failed), Use({"ssl"}), Try({"ssl"}, failed),
             Get("cert", {"ssl"}, failed), Try({"ssl"}, failed),
             Loop(<<Try({}, failed), Use({"ssl"})>>), Try({}, failed), Ret("ok") >>)
        EXCEPT !.leaks = {"ctx", "ssl", "sockfd", "rp", "cert"}]

\* After a failed accept or handshake the loop goes on with the same SSL object.
bench_server ==
    [Proc(<< Get("ctx", {}, failed), Try({"ctx"}, failed), Try({"ctx"}, failed),
             Try({"ctx"}, failed), May("ssl", {"ctx"}), Get("sockfd", {}, failed),
             Try({"sockfd"}, failed), Try({"sockfd"}, failed), Try({"sockfd"}, failed),
             Loop(<<May("connfd", {"sockfd"}), If("connfd", <<Use({"ssl"})>>)>>),
             May("connfd", {"sockfd"}), If("connfd", <<Use({"ssl"}), Loop(<<Use({"ssl"})>>),
                                                       Close("connfd")>>),
             Ret("ok") >>)
        EXCEPT !.leaks = {"ctx", "ssl", "sockfd", "connfd"}]

-----------------------------------------------------------------------------
\* dev-sock-dtls-udp.  A failed read or write goes on unless the socket is beyond use.
handle_socket_error(fail) == Try({}, fail)
handle_socket_error_client(fail) == handle_socket_error(fail)
Transfer(fail) ==
    <<Use({"ssl"}), Opt(<<handle_socket_error(fail)>>), Try({"ssl"}, fail)>>

cookie == <<Opt(<<Try({}, failed)>>), Use({"ssl"}), Get("buffer", {}, failed), Use({"buffer"}),
            Free("buffer")>>
generate_cookie == [Proc(cookie \o <<Ret("ok")>>) EXCEPT !.args = {"ssl"}]
verify_cookie   == [Proc(cookie \o <<Opt(failed), Ret("ok")>>) EXCEPT !.args = {"ssl"}]

\* SSL_get_peer_certificate counts a reference up each time; nobody counts it down.
PeerCertificate == <<May("cert", {"ssl"}), If("cert", <<May("subject", {"ssl"}), Use({"ssl"})>>)>>

connection_handle ==
    LET cleanup == <<Free("fd"), Free("info"), Free("ssl"), Ret("void")>>
    IN  [Proc(<< Get("fd", {}, cleanup), Try({"fd"}, cleanup), Try({"fd"}, cleanup),
                 Use({"ssl"}), Try({"ssl"}, cleanup) >> \o PeerCertificate \o
              << Loop(<<Loop(Transfer(cleanup)), Opt(Transfer(cleanup))>>), Use({"ssl"}) >> \o
              cleanup)
            EXCEPT !.args = {"info", "ssl"}, !.leaks = {"cert", "subject"}]

start_server ==
    Proc(<< Try({}, void), May("ctx", {}), Use({"ctx"}), Get("fd", {}, <<Exit>>),
             Try({"fd"}, <<Exit>>),
             Loop(<<May("bio", {"fd"}), Use({"bio"}), May("ssl", {"ctx"}), Use({"ssl"}),
                    Give("bio"), Loop(<<Use({"ssl"})>>), May("info", {}), Use({"info"}),
                    Give("ssl"), Give("info")>>),
             Exit >>)

\* Only the descriptor is closed, though the BIO would have closed it with the SSL
\* object; an address that cannot be read and a missing certificate end in a return.
DtlsConnected ==
    << Try({}, void), Get("fd", {}, <<Exit>>), Try({}, void), Try({"fd"}, <<Exit>>),
       May("ctx", {}), Use({"ctx"}), Try({"ctx"}, void), May("ssl", {"ctx"}),
       May("bio", {"fd"}), Use({"bio"}), Use({"ssl"}), Give("bio"), Try({"ssl"}, <<Exit>>) >>
start_client ==
    [Proc(DtlsConnected \o PeerCertificate \o
          << Loop(<<Opt(Transfer(<<Exit>>)), Loop(Transfer(<<Exit>>))>>), Close("fd") >> \o void)
        EXCEPT !.leaks = {"fd", "ctx", "ssl", "cert", "subject"}]

TlsProcs ==
    [verify_callback |-> verify_callback, verify_callback_thread |-> verify_callback_thread,
     verify_callback_bench |-> verify_callback_bench, verify_callback_qs |-> verify_callback_qs,
     dtls_verify_callback |-> dtls_verify_callback, tls_client |-> client_main,
     tls_thread_client |-> client_thread_main, tls_server |-> server_main,
     qs_client |-> qs_client_main, qs_server |-> qs_server_main,
     bench_client |-> bench_client, bench_server |-> bench_server,
     generate_cookie |-> generate_cookie, verify_cookie |-> verify_cookie,
     connection_handle |-> connection_handle, start_server |-> start_server,
     start_client |-> start_client]
=============================================================================
