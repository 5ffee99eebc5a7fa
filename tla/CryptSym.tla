------------------------------ MODULE CryptSym -------------------------------
(***************************************************************************)
(* data-crypt-sym/sym.c, both of its builds (#if CBC), and the two kernel  *)
(* modules kcrypt/cbc and kcrypt/gcm, as procedures.                       *)
(***************************************************************************)
EXTENDS Steps, Integers, Sequences


\* malloc is not tested, and the bytes are written at once.
gen_random_bytestream(r) == <<May(r, {}), Use({r})>>
char2hex(r, bytes) == <<Use({bytes}), May(r, {}), Use({r})>>
hex2char(r) == <<May(r, {}), Use({r})>>
\* fopen, one line read or written, fclose.
Line(uses) == <<May("fp", {}), Use(uses \union {"fp"}), Close("fp")>>

RandomFile(key, hex) ==
    gen_random_bytestream(key) \o char2hex(hex, key) \o Line({hex}) \o FreeEach(<<key, hex>>)

sym_keygen(CBC) ==
    Proc(gen_random_bytestream("key") \o gen_random_bytestream("iv") \o
         char2hex("hex_key", "key") \o char2hex("hex_iv", "iv") \o
         Line({"hex_key"}) \o Line({"hex_iv"}) \o
         FreeEach(<<"key", "iv", "hex_key", "hex_iv">>) \o
         (IF CBC THEN RandomFile("auth_key", "hex_auth_key") ELSE <<>>) \o <<Ret("ok")>>)

Cipher(key, iv) == <<May("ctx", {}), Use({"ctx", key, iv})>>

encrypt_cbc ==
    Proc(<<May("inbuf", {}), Use({"inbuf"})>> \o Line({}) \o Line({}) \o Line({}) \o
         hex2char("cbc_key") \o hex2char("cbc_iv") \o hex2char("cbc_auth") \o
         <<May("result", {"cbc_auth"})>> \o char2hex("auth_result_hex", "result") \o
         <<Give("result")>> \o Line({"auth_result_hex"}) \o
         Cipher("cbc_key", "cbc_iv") \o <<Use({"ctx", "inbuf"})>> \o
         <<May("outbuf_hex", {}), Use({"outbuf_hex"})>> \o Line({"outbuf_hex"}) \o
         FreeEach(<<"inbuf", "ctx", "cbc_key", "cbc_iv", "cbc_auth", "outbuf_hex",
                    "auth_result_hex">>) \o <<Ret("ok")>>)

encrypt_gcm ==
    Proc(Line({}) \o Line({}) \o hex2char("gcm_key") \o hex2char("gcm_iv") \o
         Cipher("gcm_key", "gcm_iv") \o
         <<May("outbuf_hex", {}), Use({"outbuf_hex"})>> \o Line({"outbuf_hex"}) \o
         <<Use({"ctx"}), May("tag_hex", {}), Use({"tag_hex"})>> \o Line({"tag_hex"}) \o
         FreeEach(<<"ctx", "gcm_key", "gcm_iv", "outbuf_hex", "tag_hex">>) \o <<Ret("ok")>>)

\* The key and the value of the authentication are not released.
decrypt_cbc ==
    [Proc(Line({}) \o Line({}) \o Line({}) \o Line({}) \o
          hex2char("cbc_key") \o hex2char("cbc_iv") \o hex2char("cbc_auth") \o
          hex2char("cbc_auth_val") \o Line({}) \o hex2char("inbuf_bin") \o
          Cipher("cbc_key", "cbc_iv") \o <<Use({"ctx", "inbuf_bin"})>> \o
          <<May("result", {"cbc_auth"}), Use({"result", "cbc_auth_val"}), Give("result")>> \o
          FreeEach(<<"ctx", "cbc_key", "cbc_iv", "inbuf_bin">>) \o <<Ret("ok")>>)
        EXCEPT !.leaks = {"cbc_auth", "cbc_auth_val"}]

decrypt_gcm ==
    Proc(Line({}) \o Line({}) \o Line({}) \o
         hex2char("gcm_key") \o hex2char("gcm_iv") \o hex2char("gcm_tag") \o
         Line({}) \o hex2char("inbuf_bin") \o Cipher("gcm_key", "gcm_iv") \o
         <<Use({"ctx", "inbuf_bin"}), Use({"ctx", "gcm_tag"})>> \o
         FreeEach(<<"ctx", "gcm_key", "gcm_iv", "gcm_tag", "inbuf_bin">>) \o <<Ret("ok")>>)

-----------------------------------------------------------------------------
hmac_sha256(fail) ==
    LET out == <<Free("hmac_tfm")>> \o fail
    IN  << Get("hmac_tfm", {}, fail), Try({"hmac_tfm"}, out),
           Get("shash", {"hmac_tfm"}, out),
           Try({"shash"}, <<Free("shash")>> \o out), Free("shash"), Free("hmac_tfm") >>

kcrypt_end(v) ==
    [k \in 1 .. 4 |-> LET r == <<"req", "tfm", "buffer", "buffer2">>[k]
                      IN  If(r, <<Free(r)>>)] \o <<Ret(v)>>

Crypt == Try({"req", "tfm", "buffer", "buffer2"}, kcrypt_end("error"))

\* Encrypted and decrypted, the authentication value taken before and after.  One that
\* does not match leaves err at 0.
RoundTripCbc ==
    LET out == kcrypt_end("error")
    IN  hmac_sha256(out) \o <<Crypt, Crypt>> \o hmac_sha256(out) \o
        <<Try({}, kcrypt_end("ok"))>> \o kcrypt_end("ok")

run_kcrypt_cbc ==
    LET out == kcrypt_end("error")
    IN  [Proc(<< Get("tfm", {}, out), Get("req", {"tfm"}, out), Use({"req"}),
                 Try({"tfm"}, out), Get("buffer", {}, out), Get("buffer2", {}, out),
                 Use({"buffer", "buffer2"}) >> \o RoundTripCbc)
            EXCEPT !.silent = TRUE]

RoundTripGcm == <<Crypt, Crypt>> \o kcrypt_end("ok")
run_kcrypt_gcm ==
    LET out == kcrypt_end("error")
    IN  Proc(<< Get("tfm", {}, out), Try({"tfm"}, out), Try({"tfm"}, out),
                Get("req", {"tfm"}, out), Get("buffer", {}, out), Get("buffer2", {}, out),
                Use({"buffer", "buffer2", "req"}) >> \o RoundTripGcm)

SymProcs ==
    [keygen_cbc |-> sym_keygen(TRUE), keygen_gcm |-> sym_keygen(FALSE),
     encrypt_cbc |-> encrypt_cbc, encrypt_gcm |-> encrypt_gcm,
     decrypt_cbc |-> decrypt_cbc, decrypt_gcm |-> decrypt_gcm,
     kcrypt_cbc |-> run_kcrypt_cbc, kcrypt_gcm |-> run_kcrypt_gcm]
=============================================================================
