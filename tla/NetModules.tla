----------------------------- MODULE NetModules ------------------------------
(***************************************************************************)
(* Loading and unloading the kernel modules that bring a network device, a *)
(* netlink socket, a netfilter hook or a DMA channel, and the paths of the *)
(* transmit hooks that acquire something, as procedures.  A loaded module  *)
(* goes on with its exit function, so that what loading acquired has to be *)
(* released by unloading; a load that fails is not followed by an unload.  *)
(***************************************************************************)
EXTENDS Steps, Sequences

Module(init, exit) == Proc(init \o exit \o <<Ret("ok")>>)

\* alloc_netdev calls setup, which fills the pool as far as memory lasts.
PairDevice(dev, pool, err) == <<Get(dev, {}, err), May(pool, {})>>
\* The error exits release devices only, and not every one that is there: one may still
\* be registered when it is freed.
PairInit ==
    PairDevice("dev0", "pool0", failed) \o PairDevice("dev1", "pool1", failed) \o
    <<Get("reg0", {"dev0"}, <<Free("dev0")>> \o failed),
      Get("reg1", {"dev1"}, <<Free("dev0"), Free("dev1")>> \o failed)>>
PairCleanup == FreeEach(<<"reg0", "pool0", "dev0", "reg1", "pool1", "dev1">>)
PairModule == [Module(PairInit, PairCleanup) EXCEPT
                 !.leaks = {"dev0", "dev1", "pool0", "pool1", "reg0"}]

dummveth == PairModule
deth == PairModule
kneigh == PairModule
kxdp_generic == PairModule
kxdp_native == PairModule
kxfrm_cbc == PairModule
kxfrm_gcm == PairModule

\* The neighbour that is found or made is held until it has been printed.
neigh_lookup == Proc(<<Get("n", {}, failed), Use({"n"}), Give("n"), Ret("ok")>>)

\* The range is one queue; rxq is its registration.  A program that is refused is taken
\* back; the registration outlives the program and the device, for the function that
\* ends it has no caller.
enable_xdp_range(err) ==
    <<Opt(<<May("napi", {})>>), Get("rxq", {}, err), Try({"rxq"}, <<Free("rxq")>> \o err)>>
kxdp_xdp_set ==
    [Proc(<<Try({}, failed), Opt(enable_xdp_range(failed)), Ret("ok")>>) EXCEPT
        !.leaks = {"rxq", "napi"}]

-----------------------------------------------------------------------------
hmac_sha256 ==
    LET end == <<Close("tfm")>> \o failed IN
    Proc(<<Get("tfm", {}, failed), Try({"tfm"}, end), Get("shash", {}, end),
           Use({"shash", "tfm"}), Free("shash"), Close("tfm"), Ret("ok")>>)

\* A request that could not be made is used all the same.
hmac_sha256_async ==
    LET end == <<Free("key")>> \o failed
        out == <<Free("req"), Close("tfm")>> \o end
    IN  Proc(<<Opt(<<May("key", {})>>), Get("tfm", {}, end), May("req", {"tfm"}),
               Try({"tfm"}, out), Try({"req"}, out)>> \o
             FreeEach(<<"req", "tfm", "key">>) \o <<Ret("ok")>>)

esp_end(sent) ==
    FreeEach(<<"skcipher", "req", "buffer_src", "buffer_dst", "buffer_final">>) \o
    <<Ret(IF sent THEN "ok" ELSE "error")>>
drop == esp_end(FALSE)
pass == esp_end(TRUE)
EspBuffers == <<Get("x", {}, failed), Get("buffer_src", {}, drop),
                Get("buffer_dst", {}, drop), Get("buffer_final", {}, drop)>>
Crypt == Try({"req", "buffer_src", "buffer_dst", "buffer_final"}, drop)

\* hw_tx on an ESP packet: "ok" is the packet sent on.  A failure that does not set err,
\* and the MAC or the ciphertext that does not compare, leave the err of the last call:
\* the packet is sent.  The reference to the SA is never put.
AuthenticatedCbc ==
    <<Try({"buffer_src"}, drop), Try({"buffer_src"}, pass), Get("skcipher", {}, pass),
      Get("req", {"skcipher"}, pass), Try({"skcipher"}, drop)>>
RecryptedCbc ==
    <<Crypt, Opt(<<Crypt>>), Try({"buffer_src", "buffer_final"}, pass),
      Try({"buffer_src", "buffer_dst"}, drop)>>
esp_cbc ==
    [Proc(EspBuffers \o AuthenticatedCbc \o RecryptedCbc \o pass)
        EXCEPT !.leaks = {"x"}, !.silent = TRUE]

CipherGcm ==
    <<Get("skcipher", {}, drop), Try({"skcipher"}, drop), Try({"skcipher"}, drop),
      Get("req", {"skcipher"}, pass)>>
RecryptedGcm ==
    <<Crypt, Opt(<<Crypt>>), Try({"buffer_src", "buffer_final"}, pass),
      Try({"buffer_src", "buffer_final"}, pass)>>
esp_gcm ==
    [Proc(EspBuffers \o CipherGcm \o RecryptedGcm \o pass)
        EXCEPT !.leaks = {"x"}, !.silent = TRUE]

-----------------------------------------------------------------------------
\* No error return gives back what has been acquired.
kdma_transfer(wait) ==
    <<Use({"src", "dst"}), Get("kdma_ch", {}, failed), Get("kdma_unmap_data", {}, failed),
      Try({"kdma_unmap_data"}, failed), Try({"kdma_unmap_data"}, failed),
      Try({"kdma_ch"}, failed)>> \o wait \o <<Give("kdma_unmap_data"), Give("kdma_ch")>>
kdma(wait) ==
    [Module(<<May("src", {}), May("dst", {}), Use({"src"})>> \o kdma_transfer(wait),
            FreeEach(<<"src", "dst">>))
        EXCEPT !.leaks = {"src", "dst", "kdma_ch", "kdma_unmap_data"}]
\* A transfer that ends in an error is polled for ever.
kdma_async == kdma(<<Loop(<<Use({"kdma_ch"})>>)>>)
kdma_sync == kdma(<<Use({"kdma_ch"})>>)

wlanidt_create_context(err) ==
    LET wiphy == <<Free("ret")>> \o err
        wiphy_register == <<Free("wiphy")>> \o wiphy
        alloc_ndev == <<Free("wiphy_reg")>> \o wiphy_register
    IN  <<Get("ret", {}, err), Get("wiphy", {"ret"}, wiphy),
          Get("wiphy_reg", {"wiphy"}, wiphy_register),
          Get("ndev", {"ret", "wiphy"}, alloc_ndev),
          Get("ndev_reg", {"ndev"}, <<Free("ndev")>> \o alloc_ndev)>>
wlanidt_free == FreeEach(<<"ndev_reg", "ndev", "wiphy_reg", "wiphy", "ret">>)
virtual_wifi_exit == <<Use({"ret"})>> \o wlanidt_free
\* A load that fails returns 1, which the kernel takes for a success with a warning: the
\* unload follows the NULL context.
virtual_wifi == Module(wlanidt_create_context(<<Clear("ret")>> \o virtual_wifi_exit),
                       virtual_wifi_exit)

\* PTR_ERR(NULL) is 0: the load that failed is a success, and is followed by an unload.
netlink_if ==
    [Module(<<Get("nlsock", {}, <<Free("nlsock"), Ret("ok")>>)>>, <<Free("nlsock")>>)
        EXCEPT !.silent = TRUE]
netlink_recv_and_reply ==
    Proc(<<Get("skb_tx", {}, <<Ret("void")>>), Use({"skb_tx"}), Give("skb_tx"), Ret("void")>>)

nf_hook(ops, hook) == <<May(ops, {}), If(ops, <<May(hook, {ops})>>)>>
nf_unhook(ops, hook) == <<If(ops, <<Free(hook), Free(ops)>>)>>
nf_knetfilter ==
    Module(nf_hook("icmp_ops", "icmp") \o nf_hook("port_ops", "port"),
           nf_unhook("icmp_ops", "icmp") \o nf_unhook("port_ops", "port"))

-----------------------------------------------------------------------------
\* The error exits of the GPIO link free the lines that are held, the output lines first.
FreeLines(held) ==
    FreeEach(SelectSeq(<<"ctl_o", "data_o", "ctl_i", "data_i">>, LAMBDA l : l \in held))
Lines(ctl, data, held) ==
    LET undo(more) == FreeLines(held \union more) \o failed IN
    <<Get(ctl, {}, undo({})), Try({ctl}, undo({ctl})),
      Get(data, {}, undo({ctl})), Try({data}, undo({ctl, data}))>>
OutLines == {"ctl_o", "data_o"}
AllLines == OutLines \union {"ctl_i", "data_i"}
Irqs(held) == <<Get("ctl_irq", {}, FreeLines(held) \o failed),
                Get("data_irq", {}, FreeLines(held) \o <<Free("ctl_irq")>> \o failed)>>
FreeIrqs == <<Free("ctl_irq"), Free("data_irq")>>

\* With output lines only, the load waits for each of the packets its work item sends,
\* unless a signal ends the wait.
job_handler == <<Use({"ctl_o", "data_o"})>>
ksock_gpio_out ==
    [Module(Lines("ctl_o", "data_o", {}) \o <<Spawn("job", job_handler), Opt(<<Join("job")>>)>>,
            FreeLines(OutLines)) EXCEPT !.dangling = {"job"} \X OutLines]
ksock_gpio_in ==
    LET held == {"ctl_i", "data_i"}
    IN  Module(Lines("ctl_i", "data_i", {}) \o Irqs(held), FreeLines(held) \o FreeIrqs)
\* With both, there is a network device.  It is unregistered last, when the lines its
\* transmissions use are gone.
geth_xmit == <<If("geth_reg", <<Use({"ctl_o", "data_o"})>>)>>
ksock_gpio_both ==
    LET undo == FreeLines(AllLines) \o FreeIrqs
    IN  [Module(Lines("ctl_o", "data_o", {}) \o Lines("ctl_i", "data_i", OutLines) \o
                Irqs(AllLines) \o
                <<Get("geth_devs", {}, undo \o failed),
                  Get("geth_reg", {"geth_devs"}, undo \o <<Free("geth_devs")>> \o failed),
                  Spawn("xmit", geth_xmit)>>,
                undo \o <<Give("geth_reg"), Free("geth_devs")>>)
            EXCEPT !.dangling = {"xmit"} \X OutLines]

NetProcs ==
    [dummveth |-> dummveth, deth |-> deth, kneigh |-> kneigh, kxdp_generic |-> kxdp_generic,
     kxdp_native |-> kxdp_native, kxfrm_cbc |-> kxfrm_cbc, kxfrm_gcm |-> kxfrm_gcm,
     neigh_lookup |-> neigh_lookup, kxdp_xdp_set |-> kxdp_xdp_set,
     kxfrm_hmac_sha256 |-> hmac_sha256, hmac_sha256_async |-> hmac_sha256_async,
     esp_cbc |-> esp_cbc, esp_gcm |-> esp_gcm, kdma_async |-> kdma_async,
     kdma_sync |-> kdma_sync, virtual_wifi |-> virtual_wifi, netlink_if |-> netlink_if,
     netlink_recv_and_reply |-> netlink_recv_and_reply, nf_knetfilter |-> nf_knetfilter,
     ksock_gpio_out |-> ksock_gpio_out, ksock_gpio_in |-> ksock_gpio_in,
     ksock_gpio_both |-> ksock_gpio_both]
=============================================================================
