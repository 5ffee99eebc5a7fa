----------------------------- MODULE CryptAsym -------------------------------
(***************************************************************************)
(* The functions of data-crypt-asym/asym.c as procedures.  Keys, numbers   *)
(* and certificates are OpenSSL objects; their contents are left out.      *)
(***************************************************************************)
EXTENDS Steps, Sequences

free_all == <<Free("bp_public"), Free("bp_private"), Free("r"), Free("bne")>>
free_all_ec == <<Free("bp_public"), Free("bp_private")>>

\* One key pair, written to two files; a BIO that cannot be opened makes the write fail.
KeyPair(out) ==
    << May("bne", {}), Try({"bne"}, out), May("r", {}), Try({"r", "bne"}, out),
       Get("bp_private", {}, out), Try({"bp_private", "r"}, out),
       Get("bp_public", {}, out), Try({"bp_public", "r"}, out) >> \o free_all

\* free_all leaves the four variables as they are: a failure in the second round
\* releases what the first round released.
key_pair_generate ==
    LET out == free_all \o <<Ret("error")>>
    IN  [Proc(KeyPair(out) \o KeyPair(out) \o <<Ret("ok")>>)
            EXCEPT !.dangling = {<<"main", "bp_public">>}]

\* The error exits forget the key and the group.
KeyPairEc ==
    LET out == free_all_ec \o <<Ret("error")>>
    IN  << Get("eckey", {}, <<Ret("error")>>), Get("ecgroup", {}, <<Ret("error")>>),
           Try({"eckey", "ecgroup"}, <<Ret("error")>>),
           Try({"eckey"}, <<Ret("error")>>),
           Get("bp_private", {}, out), Try({"bp_private", "eckey"}, out),
           Get("bp_public", {}, out), Try({"bp_public", "eckey"}, out),
           Free("eckey"), Free("ecgroup") >> \o free_all_ec

key_pair_generate_ec ==
    [Proc(KeyPairEc \o KeyPairEc \o <<Ret("ok")>>)
        EXCEPT !.leaks = {"eckey", "ecgroup"}, !.dangling = {<<"main", "bp_public">>}]

\* key = read(fopen(path)); neither is tested.
ReadKey(key) == <<May("fp", {}), May(key, {"fp"}), Close("fp")>>
WriteFile(text) == <<May("fp", {}), Use({"fp"} \union text), Close("fp")>>

asym_encrypt ==
    Proc(ReadKey("pub_key") \o
         << May("rsa_pub_key", {"pub_key"}), May("enc_msg", {"rsa_pub_key"}), May("err", {}),
            Use({"enc_msg", "rsa_pub_key"}), May("enc_hex", {"enc_msg"}) >> \o
         WriteFile({"enc_hex"}) \o
         FreeEach(<<"rsa_pub_key", "pub_key", "enc_msg", "err", "enc_hex">>) \o <<Ret("ok")>>)

asym_decrypt ==
    Proc(ReadKey("priv_key") \o
         << May("rsa_priv_key", {"priv_key"}), May("enc_msg", {"rsa_priv_key"}),
            May("fp", {}), Use({"enc_msg", "fp"}), Close("fp"),
            May("dec_bin", {"enc_msg"}), May("dec_msg", {"rsa_priv_key"}), May("err", {}),
            Use({"dec_bin", "dec_msg", "rsa_priv_key"}) >> \o
         FreeEach(<<"rsa_priv_key", "priv_key", "enc_msg", "dec_msg", "err", "dec_bin">>) \o
         <<Ret("ok")>>)

\* The shared secret: neither function releases the keys or the secret.
SharedSecret ==
    ReadKey("pkey") \o ReadKey("pub_key") \o ReadKey("peer_pub_key") \o
    << Use({"peer_pub_key"}), May("secret", {"pkey"}),
       Use({"secret", "peer_pub_key", "pkey"}) >>

asym_shared_keygen_ec ==
    [Proc(SharedSecret \o <<May("enc_hex", {"secret"})>> \o WriteFile({"enc_hex"}) \o
          <<Free("enc_hex"), Ret("ok")>>)
        EXCEPT !.leaks = {"pkey", "pub_key", "peer_pub_key", "secret"}]

asym_shared_keycheck_ec ==
    [Proc(SharedSecret \o
          << May("enc_msg", {}), May("fp", {}), Use({"enc_msg", "fp"}), Close("fp"),
             May("enc", {"enc_msg"}), Use({"secret", "enc"}), Free("enc"), Ret("ok") >>)
        EXCEPT !.leaks = {"pkey", "pub_key", "peer_pub_key", "secret", "enc_msg"}]

asym_pipe ==
    Proc(ReadKey("pub_key") \o ReadKey("priv_key") \o
         << May("rsa_pub_key", {"pub_key"}), May("rsa_priv_key", {"priv_key"}),
            May("enc_msg", {"rsa_pub_key"}), May("dec_msg", {"rsa_priv_key"}),
            May("errmsg", {}), Use({"enc_msg", "rsa_pub_key"}),
            May("enc_hex", {"enc_msg"}), May("dec_bin", {"enc_hex"}),
            Use({"enc_msg", "dec_bin"}), Use({"dec_bin", "dec_msg", "rsa_priv_key"}) >> \o
         FreeEach(<<"rsa_pub_key", "rsa_priv_key", "pub_key", "priv_key", "enc_msg",
                    "dec_msg", "errmsg", "enc_hex", "dec_bin">>) \o <<Ret("ok")>>)

\* The CA's certificate, then the server's; of all the objects they are made of only
\* the certificates and the keys are released.
CertCa ==
    << May("serial_asn1", {}), May("serial_asn1_s", {}), May("x509_ca", {}),
       May("x509_s", {}), May("akid", {}), Use({"akid"}) >> \o
    ReadKey("priv_key_ca") \o ReadKey("pub_key_ca") \o
    ReadKey("priv_key_s") \o ReadKey("pub_key_s") \o
    << Use({"x509_ca"}), May("q", {}), Use({"q", "serial_asn1", "x509_ca", "pub_key_ca"}),
       May("skid", {}), May("extskid", {"skid"}), Use({"x509_ca", "extskid"}),
       May("extakid", {"akid"}), Use({"x509_ca", "extakid"}),
       May("extension_usage", {"x509_ca"}),
       Use({"x509_ca", "extension_usage", "priv_key_ca"}) >>

CertServer ==
    << Use({"x509_s"}), May("q_s", {}),
       Use({"q_s", "serial_asn1_s", "x509_s", "x509_ca", "pub_key_s"}),
       May("skid", {}), May("extskid", {"skid"}), Use({"x509_s", "extskid", "extakid"}),
       May("gens", {}), May("gen", {}), May("ia5", {}), Use({"gen"}), Give("ia5"),
       Use({"gens"}), Give("gen"), Use({"x509_s", "gens", "priv_key_ca"}) >> \o
    WriteFile({"x509_ca"}) \o WriteFile({"x509_s"}) \o
    FreeEach(<<"x509_ca", "x509_s", "priv_key_ca", "priv_key_s", "pub_key_ca", "pub_key_s">>)

cert_create ==
    [Proc(CertCa \o CertServer \o <<Ret("ok")>>)
        EXCEPT !.leaks = {"serial_asn1", "serial_asn1_s", "akid", "q", "q_s", "skid",
                          "extskid", "extakid", "extension_usage", "gens"}]

sig_verify ==
    << May("issuer", {"intermediate"}), May("signing_key", {"issuer"}),
       May("x509", {"cert"}), Use({"x509", "signing_key"}) >> \o
    FreeEach(<<"signing_key", "x509", "issuer">>)

cert_info(bio) ==
    << May("x509", {bio}), May("bio_out", {}), Use({"bio_out", "x509"}) >> \o
    FreeEach(<<"bio_out", "x509">>)

Files == <<May("cert", {}), May("intermediate", {}), Use({"cert", "intermediate"})>>

cert_verify ==
    Proc(Files \o sig_verify \o FreeEach(<<"cert", "intermediate">>) \o <<Ret("ok")>>)

cert_show ==
    Proc(Files \o cert_info("cert") \o cert_info("intermediate") \o
         FreeEach(<<"cert", "intermediate">>) \o <<Ret("ok")>>)

signature ==
    [Proc(ReadKey("pkey") \o ReadKey("pub_key") \o
          << May("hash", {}), Get("sig", {"hash", "pkey"}, <<Ret("error")>>),
             Use({"hash", "sig", "pub_key"}), Ret("ok") >>)
        EXCEPT !.leaks = {"pkey", "pub_key", "hash", "sig"}]

print_cn_name ==
    Proc(<<Opt(<<May("utf8", {})>>), If("utf8", <<Free("utf8")>>), Ret("void")>>)

\* Neither side closes its sockets.  The server's thread is not joined: tls releases
\* serverssl while the thread may still use it.
create_tls_client(fail, done) ==
    << Get("s_c", {}, <<Exit>>), Try({"s_c"}, fail), Try({"clientssl", "s_c"}, fail),
       Try({"clientssl"}, fail), Get("cert", {"clientssl"}, <<Exit>>), Free("cert"),
       Try({"clientssl"}, fail), Try({"clientssl"}, fail) >> \o done

create_tls_server ==
    << Get("s", {}, <<Exit>>), Try({"s"}, <<Exit>>), Try({"s"}, <<Exit>>),
       Get("c", {"s"}, <<Exit>>), Use({"serverssl", "c"}), Try({"serverssl"}, <<Exit>>),
       Try({"serverssl"}, <<Exit>>) >>

tls ==
    LET err == FreeEach(<<"serverssl", "clientssl", "serverctx", "clientctx", "libctx">>)
               \o <<Ret("ok")>>
    IN  [Proc(<< Get("libctx", {}, err),
                 Get("serverctx", {"libctx"}, <<May("clientctx", {"libctx"})>> \o err),
                 Get("clientctx", {"libctx"}, err),
                 Try({"serverctx", "clientctx"}, err), Try({"clientctx"}, err),
                 Try({"serverctx"}, err), May("serverssl", {"serverctx"}),
                 May("clientssl", {"clientctx"}), Spawn("server", create_tls_server) >> \o
              create_tls_client(err, err))
            EXCEPT !.leaks = {"s_c", "s", "c"}, !.dangling = {<<"server", "serverssl">>},
                   !.silent = TRUE]

AsymProcs ==
    [key_pair_generate |-> key_pair_generate, key_pair_generate_ec |-> key_pair_generate_ec,
     asym_encrypt |-> asym_encrypt, asym_decrypt |-> asym_decrypt,
     asym_shared_keygen_ec |-> asym_shared_keygen_ec,
     asym_shared_keycheck_ec |-> asym_shared_keycheck_ec, asym_pipe |-> asym_pipe,
     cert_create |-> cert_create, cert_verify |-> cert_verify, cert_show |-> cert_show,
     signature |-> signature, print_cn_name |-> print_cn_name, asym_tls |-> tls]
=============================================================================
