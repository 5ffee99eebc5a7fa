----------------------------- MODULE RawSockets ------------------------------
(***************************************************************************)
(* The programs on packet, netlink and CAN sockets, the firewall loaders   *)
(* and the forking HTTP server, as procedures.  A descriptor that was not  *)
(* opened is -1, which a system call refuses: only its own test stops it.  *)
(* A loop at the end of a procedure has no other exit.                     *)
(***************************************************************************)
EXTENDS Steps, Sequences

\* dev-sock-raw-mmap-packet-ip: a socket and the ring that is mapped over it.
init_ring_daddr(fail) == <<Try({"fd"}, fail)>>

init_packetsock_ring(fail) ==
    <<Try({"fd"}, fail)>> \o init_ring_daddr(fail) \o
    <<Try({"fd"}, fail), Get("ring", {"fd"}, fail)>>

init_packetsock(fail) ==
    <<Get("fd", {}, fail)>> \o init_packetsock_ring(<<Close("fd")>> \o fail)

exit_packetsock(fail) ==
    <<Try({"ring"}, fail), Close("ring"), Close("fd"), Try({}, fail)>>

process_rx == <<Use({"fd", "ring"})>>
process_rx_release == <<Use({"ring"})>>
rx_flush == <<Use({"ring"})>>
Received(handle) ==
    <<Loop(process_rx \o handle \o process_rx_release), Opt(rx_flush)>>

\* A bind that fails leaves both to the end of the process.
Serve(after, handle) ==
    init_packetsock(after) \o <<Try({"fd"}, after), Loop(Received(handle))>>

view_ip_packet == <<Use({"ring"})>>
ring_server_main ==
    [Proc(Serve(void, view_ip_packet)) EXCEPT !.leaks = {"fd", "ring"}]

\* The client: the same functions again, and a packet that is allocated untested.
client_init_ring_daddr(fail) == init_ring_daddr(fail)
client_init_packetsock_ring(fail) == init_packetsock_ring(fail)
client_init_packetsock(fail) == init_packetsock(fail)
client_exit_packetsock(fail) == exit_packetsock(fail)
make_ip_packet == <<May("new_packet", {}), Use({"new_packet"})>>
process_tx == <<Use({"ring"}), Loop(<<Use({"fd"})>>), Use({"ring", "new_packet"}), Use({"fd"})>>

do_req ==
    client_init_packetsock(void) \o <<Try({"fd"}, void)>> \o make_ip_packet \o process_tx \o
    <<Loop(process_tx)>> \o client_exit_packetsock(void) \o <<Free("new_packet"), Ret("void")>>
ring_client_main ==
    [Proc(<<Try({}, failed)>> \o do_req) EXCEPT !.leaks = {"fd", "ring", "new_packet"}]

-----------------------------------------------------------------------------
\* var-mitm-tls: the resources of its key derivation, and its ring.
tls1_prf_P_hash ==
    LET err(v) == FreeEach(<<"ctx", "ctx_Ai">>) \o <<Ret(v)>>
        e == err("error")
        chunk == << Try({"ctx_Ai"}, e), Close("ctx_Ai"), Clear("ctx_Ai"),
                    Get("ctx", {"ctx_init"}, e), Try({"ctx"}, e) >>
    IN  [Proc(<< Try({"ctx_init"}, e), Get("ctx_Ai", {"ctx_init"}, e), Try({"ctx_Ai"}, e),
                 Loop(chunk \o << Get("ctx_Ai", {"ctx"}, e), Try({"ctx"}, e),
                                  Try({"ctx"}, e), Close("ctx"), Clear("ctx") >>) >> \o
              chunk \o <<Try({"ctx"}, e), Try({"ctx"}, e)>> \o err("ok"))
            EXCEPT !.args = {"ctx_init"}]

\* The fetched algorithm is not released.
hijack_key ==
    LET end(v) == FreeEach(<<"rsa_priv_key", "dec_msg", "md", "macctx">>) \o <<Ret(v)>>
        e == end("error")
    IN  [Proc(<< May("rsa_priv_key", {"priv_key"}), May("dec_msg", {"rsa_priv_key"}),
                 Try({"rsa_priv_key", "dec_msg"}, e), May("md", {}), Try({"md"}, e),
                 Try({"md"}, e), Try({"md"}, e), May("mac", {}), May("macctx", {"mac"}),
                 Try({"macctx", "dec_msg"}, e), Try({"macctx"}, e) >> \o end("ok"))
            EXCEPT !.args = {"priv_key"}, !.leaks = {"mac"}]

cbc256_decrypt ==
    [Proc(<< May("ctx", {}), Try({"ctx"}, failed), Try({"ctx"}, failed), Try({"ctx"}, failed),
             Close("ctx"), Ret("ok") >>)
        EXCEPT !.leaks = {"ctx"}]

mitm_init_ring_daddr(fail) == init_ring_daddr(fail)
mitm_init_packetsock_ring(fail) == init_packetsock_ring(fail)
mitm_init_packetsock(fail) == init_packetsock(fail)
sniff_packet == <<Use({"ring"})>>
mitm_do_serve(after) == Serve(after, sniff_packet)
mitm_main ==
    [Proc(<<May("fp", {}), May("priv_key", {"fp"}), Close("fp")>> \o
          mitm_do_serve(<<Free("priv_key"), Ret("ok")>>))
        EXCEPT !.leaks = {"fd", "ring"}, !.silent = TRUE]

-----------------------------------------------------------------------------
\* dev-sock-raw-packet-arp.  A socket that cannot be opened is reported as 0, and main
\* goes on with a descriptor nobody set.
neigh_exchange(fd) == <<Try({fd}, failed), Try({fd}, failed), Try({}, failed), Ret("ok")>>
neigh_init ==
    << Get("sd", {}, neigh_exchange("fd")), Try({"sd"}, failed), Try({"sd"}, failed),
       Try({"sd"}, failed), Try({"sd"}, failed), Try({"sd"}, failed) >>
arp_main ==
    [Proc(<<Try({}, failed)>> \o neigh_init \o neigh_exchange("sd"))
        EXCEPT !.junk = {"fd"}, !.dangling = {<<"main", "fd">>}, !.leaks = {"sd"}]

\* var-spoof-arp.
get_mac == <<Try({"fd"}, failed), Loop(<<Try({"fd"}, failed)>>), Try({"fd"}, failed)>>
spoof_main ==
    [Proc(<< Try({}, failed), Get("fd", {}, failed), Try({"fd"}, failed), Try({"fd"}, failed),
             Try({"fd"}, failed) >> \o get_mac \o get_mac \o <<Loop(<<Use({"fd"})>>)>>)
        EXCEPT !.leaks = {"fd"}]

\* dev-sock-netlink.
process_message == <<Loop(<<Try({}, <<>>)>>)>>
netlink_arp_main ==
    [Proc(<< Get("sock", {}, failed), Try({"sock"}, failed),
             Loop(<<Use({"sock"})>> \o process_message) >>)
        EXCEPT !.leaks = {"sock"}]

netlink_get == <<Use({"netlink_xfrm_fd"})>>
init_netlink_xfrm_fd ==
    << Get("netlink_xfrm_fd", {}, void), Try({"netlink_xfrm_fd"}, void), Loop(netlink_get) >>
kernel_xfrm_init ==
    << Get("nl_send_fd", {}, failed), Try({"nl_send_fd"}, failed),
       Try({"nl_send_fd"}, failed) >>
xfrm_main ==
    [Proc(kernel_xfrm_init \o
          << Spawn("tid", init_netlink_xfrm_fd), Loop(<<Use({"nl_send_fd"})>>) >>)
        EXCEPT !.leaks = {"nl_send_fd"}]

\* dev-net-can-sock and the SOCKS5 client: the socket is left to the end of the process.
can_main ==
    [Proc(<<Get("s", {}, failed), Use({"s"}), Try({"s"}, failed), Use({"s"}), Ret("ok")>>)
        EXCEPT !.leaks = {"s"}]
fetch_main ==
    [Proc(<< May("Socket", {}), Use({}), Try({}, failed), May("Req2", {}), Use({"Req2"}),
             Free("Req2"), Try({}, failed), Use({}), Ret("ok") >>)
        EXCEPT !.leaks = {"Socket"}]

-----------------------------------------------------------------------------
\* dev-net-firewall: every map that is looked at keeps its descriptor, and a map that
\* cannot be updated leaves the program attached.
remove_xdp_program(after) ==
    <<Get("mp", {}, after), Try({"mp"}, after), Close("attached")>> \o after
firewall_user_main ==
    LET end == remove_xdp_program(ok)
    IN  [Proc(<< May("prog", {}), Get("attached", {"prog"}, failed),
                 Loop(<<May("mapfd", {})>>), Try({}, failed),
                 Loop(<<Opt(<<Try({}, end)>>)>>) >> \o end)
            EXCEPT !.leaks = {"prog", "mapfd", "mp", "attached"}, !.silent = TRUE]

\* The namespace is looked up, and its reference taken, again at the end: when it is
\* gone, the hook of the unloaded module stays.
nf_knetfilter_exit ==
    << Get("net", {}, void),
       If("nf_blockport_ops", <<Close("hook"), Close("nf_blockport_ops")>>), Ret("void") >>
nf_knetfilter_init ==
    << Get("net", {}, failed), Get("nf_blockport_ops", {}, nf_knetfilter_exit),
       May("hook", {"net"}) >>
mynetfilter ==
    [Proc(nf_knetfilter_init \o nf_knetfilter_exit)
        EXCEPT !.leaks = {"net", "hook", "nf_blockport_ops"}]

\* dev-net-ip-netfilter: an address that cannot be bound keeps its socket.
start_server ==
    [Proc(<< Get("res", {}, <<Exit>>), Loop(<<May("listenfd", {"res"})>>),
             Get("listenfd", {"res"}, <<Exit>>), Free("res"), Try({"listenfd"}, <<Exit>>),
             Give("listenfd"), Ret("void") >>)
        EXCEPT !.leaks = {"listenfd"}]
read_file ==
    Proc(<< Get("file", {}, failed), Loop(<<Use({"file"})>>), Close("file"), Ret("ok") >>)
respond ==
    Proc(<<May("buf", {}), Opt(<<Use({"buf"})>>), Free("buf"), Ret("void")>>)

RawProcs ==
    [ring_server |-> ring_server_main, ring_client |-> ring_client_main,
     tls1_prf_P_hash |-> tls1_prf_P_hash, hijack_key |-> hijack_key,
     cbc256_decrypt |-> cbc256_decrypt, mitm |-> mitm_main, arp |-> arp_main,
     spoof |-> spoof_main, netlink_arp |-> netlink_arp_main, xfrm |-> xfrm_main,
     can |-> can_main, fetch |-> fetch_main, firewall_user |-> firewall_user_main,
     mynetfilter |-> mynetfilter, nat_start_server |-> start_server,
     nat_read_file |-> read_file, nat_respond |-> respond]
=============================================================================
