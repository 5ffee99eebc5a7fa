------------------------------ MODULE CryptQs --------------------------------
(***************************************************************************)
(* The functions of data-crypt-asym-quantumsafe: qs.c, qs_tls.c and        *)
(* qs_common.c, as procedures.  The verification of a certificate and the  *)
(* two ends of the TLS test are those of asym.c.                           *)
(***************************************************************************)
EXTENDS Steps, Integers, Sequences
A == INSTANCE CryptAsym

FreeSet(s) == [k \in DOMAIN s |-> If(s[k], <<Free(s[k])>>)]

-----------------------------------------------------------------------------
\* edend: the new key is returned, or lost when something failed.
edend(v) ==
    FreeSet(<<"mem_ser_priv", "mem_ser_pub", "ectx_priv", "ectx_pub", "priv_bio", "pub_bio",
              "dctx_priv", "dctx_pub">>) \o <<Ret(v)>>

\* A private and a public encoder, each written to a memory BIO.
Encoded ==
    LET out == edend("error")
    IN  << May("newpkey", {}), Get("ectx_priv", {"pkey"}, out), Get("ectx_pub", {"pkey"}, out),
           Get("mem_ser_priv", {}, out), Try({"ectx_priv", "mem_ser_priv"}, out),
           Try({"mem_ser_priv"}, out),
           Get("mem_ser_pub", {}, out), Try({"ectx_pub", "mem_ser_pub"}, out),
           Try({"mem_ser_pub"}, out) >>

encodedecode ==
    LET out == edend("error")
    IN  [Proc(Encoded \o
              << Get("priv_bio", {"mem_ser_priv"}, out), Get("pub_bio", {"mem_ser_pub"}, out),
                 Get("dctx_priv", {"libctx"}, out), Get("dctx_pub", {"libctx"}, out),
                 Try({"dctx_priv", "priv_bio"}, out), Try({"dctx_pub", "pub_bio"}, out),
                 Give("newpkey") >> \o edend("ok"))
            EXCEPT !.args = {"pkey", "libctx"}, !.leaks = {"newpkey"}]

encodedecodepub ==
    LET out == edend("error")
    IN  [Proc(Encoded \o
              << Get("pub_bio", {"mem_ser_pub"}, out), Get("dctx_pub", {"libctx"}, out),
                 Try({"dctx_pub", "pub_bio"}, out), Give("newpkey") >> \o edend("ok"))
            EXCEPT !.args = {"pkey", "libctx"}, !.leaks = {"newpkey"}]

\* The test after ectx_pub looks at ectx_priv; the encoder refuses a NULL context.
encode ==
    LET eend(v) == FreeEach(<<"mem_ser", "ectx_priv", "ectx_pub">>) \o <<Ret(v)>>
        out == eend("error")
    IN  [Proc(<< Get("ectx_priv", {"pkey"}, out), May("ectx_pub", {"pkey"}),
                 Need("ectx_priv", out), Get("mem_ser", {}, out),
                 Try({"ectx_priv", "mem_ser"}, out), Free("mem_ser"),
                 Get("mem_ser", {}, out), Need("ectx_pub", out),
                 Try({"ectx_pub", "mem_ser"}, out) >> \o eend("ok"))
            EXCEPT !.args = {"pkey"}]

\* The file is never closed.
ReadFile == <<May("fp", {}), Use({"fp"})>>
read_file_to_buffer ==
    [Proc(ReadFile \o <<Opt(<<Ret("error")>>), Ret("ok")>>) EXCEPT !.leaks = {"fp"}]

\* Here, too, the test after dctx_pub looks at dctx_priv.
decode ==
    LET dend(v) == FreeEach(<<"priv_bio", "pub_bio", "dctx_priv", "dctx_pub", "pkey">>)
                   \o <<Ret(v)>>
        out == dend("error")
    IN  [Proc(ReadFile \o <<Opt(out), Get("priv_bio", {}, out)>> \o
              ReadFile \o <<Opt(out), Get("pub_bio", {}, out)>> \o
              << Get("dctx_priv", {"libctx"}, out), May("dctx_pub", {"libctx"}),
                 Need("dctx_priv", out), Get("pkey", {"dctx_priv", "priv_bio"}, out),
                 Need("dctx_pub", out), Try({"dctx_pub", "pub_bio"}, out), Give("pkey") >>
              \o dend("ok"))
            EXCEPT !.args = {"libctx"}, !.leaks = {"fp"}]

-----------------------------------------------------------------------------
cleanup_heap ==
    << If("kem", FreeEach(<<"secret_key", "shared_secret_e", "shared_secret_d">>)) >> \o
    FreeEach(<<"public_key", "ciphertext", "kem">>)

cleanup_heap_sig ==
    <<If("sig", <<Free("secret_key")>>)>> \o FreeEach(<<"public_key", "signature", "sig">>)

\* A key encapsulation that is not compiled in counts as success.
qs_kem ==
    LET out == cleanup_heap \o <<Ret("error")>>
        keys == <<"public_key", "secret_key", "ciphertext", "shared_secret_e",
                  "shared_secret_d">>
    IN  [Proc(<<Get("kem", {}, <<Ret("ok")>>)>> \o
              [k \in 1 .. 5 |-> May(keys[k], {"kem"})] \o
              [k \in 1 .. 5 |-> Need(keys[k], out)] \o
              << Use({"ciphertext", "shared_secret_e", "shared_secret_d"}),
                 Try({"kem", "public_key", "secret_key"}, out),
                 Try({"kem", "ciphertext", "shared_secret_e", "public_key"}, out),
                 Try({"kem", "shared_secret_d", "ciphertext", "secret_key"}, out),
                 Try({"shared_secret_d", "shared_secret_e"}, out) >> \o
              cleanup_heap \o <<Ret("ok")>>)
            EXCEPT !.silent = TRUE]

qs_signatures ==
    LET out == cleanup_heap_sig \o <<Ret("error")>>
        keys == <<"public_key", "secret_key", "signature">>
    IN  Proc(<<Get("sig", {}, <<Ret("error")>>)>> \o
             [k \in 1 .. 3 |-> May(keys[k], {"sig"})] \o
             [k \in 1 .. 3 |-> Need(keys[k], out)] \o
             << Try({"sig", "public_key", "secret_key"}, out),
                Try({"sig", "signature", "secret_key"}, out),
                Try({"sig", "signature", "public_key"}, out) >> \o
             cleanup_heap_sig \o <<Ret("ok")>>)

sig_verify == A!sig_verify
cert_verify ==
    Proc(A!Files \o sig_verify \o FreeEach(<<"cert", "intermediate">>) \o <<Ret("ok")>>)

-----------------------------------------------------------------------------
\* One of the three certificates: a chain of calls joined by ||, the first that fails
\* sets ret to 0 and the next certificate is tried all the same.
Certificate(evpctx, pkey, x509, signer, more, fail) ==
    << Need(evpctx, fail), Get(pkey, {evpctx}, fail), Need(x509, fail),
       Try({x509, pkey}, fail), Need(signer, fail) >> \o more
CertBio(bio, x509, fail) == <<Get(bio, {}, fail), Try({bio, x509}, fail)>>

create_cert_key ==
    LET out(v) == FreeEach(<<"pkey_ca", "x509_ca", "evpctx_ca", "certbio_ca", "pkey_c",
                             "x509_c", "evpctx_c", "keybio_c", "certbio_c", "pkey", "x509",
                             "evpctx", "keybio", "certbio">>) \o <<Ret(v)>>
        Ca(fail) == <<Get("extension_usage", {"x509_ca"}, fail),
                      Try({"x509_ca", "extension_usage", "pkey_ca"}, fail)>> \o
                    CertBio("certbio_ca", "x509_ca", fail)
        Cli(fail) == <<Try({"x509_c", "pkey_ca"}, fail)>> \o
                     CertBio("keybio_c", "pkey_c", fail) \o CertBio("certbio_c", "x509_c", fail)
        Srv(fail) == <<Try({"x509", "pkey_ca"}, fail)>> \o
                     CertBio("keybio", "pkey", fail) \o CertBio("certbio", "x509", fail)
        Third(v)  == Certificate("evpctx", "pkey", "x509", "pkey_ca",
                                 Srv(out("error")), out("error")) \o out(v)
        Second(v) == Certificate("evpctx_c", "pkey_c", "x509_c", "pkey_ca",
                                 Cli(Third("error")), Third("error")) \o Third(v)
    IN  [Proc(<< May("evpctx_ca", {}), May("evpctx_c", {}), May("evpctx", {}),
                 May("x509_ca", {}), May("x509_c", {}), May("x509", {}) >> \o
              Certificate("evpctx_ca", "pkey_ca", "x509_ca", "pkey_ca",
                          Ca(Second("error")), Second("error")) \o
              Second("ok"))
            EXCEPT !.leaks = {"extension_usage"}]

print_cn_name == A!print_cn_name

create_tls1_3_ctx_pair ==
    LET err == FreeEach(<<"serverctx", "clientctx">>) \o <<Ret("error")>>
    IN  [Proc(<< May("serverctx", {"libctx"}), May("clientctx", {"libctx"}),
                 Need("serverctx", err), Need("clientctx", err),
                 Try({"serverctx", "clientctx"}, err), Try({"clientctx"}, err),
                 Try({"serverctx"}, err), Give("serverctx"), Give("clientctx"), Ret("ok") >>)
            EXCEPT !.args = {"libctx"}]

create_tls_client(fail, done) == A!create_tls_client(fail, done)
create_tls_server == A!create_tls_server
create_tls_connection(fail, done) ==
    <<Spawn("server", create_tls_server)>> \o create_tls_client(fail, done)

\* The server's thread is not joined before serverssl is released.
qs_tlsnet ==
    LET err(v) == FreeEach(<<"serverssl", "clientssl", "sctx", "cctx">>) \o <<Ret(v)>>
        out == err("error")
    IN  [Proc(<< Try({"logfile"}, out), Try({"libctx"}, out), Try({"libctx"}, out),
                 May("sctx", {}), May("cctx", {}), Need("sctx", out), Need("cctx", out),
                 May("serverssl", {"sctx"}), May("clientssl", {"cctx"}),
                 Try({"serverssl"}, out), Try({"clientssl"}, out) >> \o
              create_tls_connection(out, err("ok")))
            EXCEPT !.args = {"libctx", "logfile"}, !.leaks = {"s_c", "s", "c"},
                   !.dangling = {<<"server", "serverssl">>}]

\* A buffer for a parameter of the key, handed to the caller or released.
get_param_octet_string ==
    [Proc(<< Try({"key"}, <<Ret("error")>>), Get("buf", {}, <<Ret("error")>>),
             Try({"key", "buf"}, <<Free("buf"), Clear("buf"), Ret("error")>>),
             Give("buf"), Ret("ok") >>)
        EXCEPT !.args = {"key"}]

QsProcs ==
    [encodedecode |-> encodedecode, encodedecodepub |-> encodedecodepub, encode |-> encode,
     read_file_to_buffer |-> read_file_to_buffer, decode |-> decode, qs_kem |-> qs_kem,
     qs_signatures |-> qs_signatures, qs_cert_verify |-> cert_verify,
     create_cert_key |-> create_cert_key, qs_print_cn_name |-> print_cn_name,
     create_tls1_3_ctx_pair |-> create_tls1_3_ctx_pair, qs_tlsnet |-> qs_tlsnet,
     get_param_octet_string |-> get_param_octet_string]
=============================================================================
