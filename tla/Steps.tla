------------------------------- MODULE Steps ---------------------------------
(***************************************************************************)
(* The vocabulary in which module Procedure takes a sequential C function: *)
(* what each statement does to the pointer variables, and what it goes on  *)
(* with when it fails.  uses are the pointers a call follows.              *)
(***************************************************************************)
Step(op, r, uses, err) == [op |-> op, r |-> r, uses |-> uses, err |-> err]

Get(r, uses, err) == Step("get", r, uses, err)   \* r = f(uses), tested
May(r, uses)      == Step("may", r, uses, <<>>)  \* r = f(uses), not tested
Try(uses, err)    == Step("try", "", uses, err)  \* f(uses), tested
Need(r, err)      == Step("need", r, {}, err)    \* if(r == NULL) goes on with err
Use(uses)         == Step("use", "", uses, <<>>) \* f(uses), cannot fail or not tested
Free(r)           == Step("free", r, {}, <<>>)   \* tolerates NULL, as free does
Close(r)          == Step("free", r, {r}, <<>>)  \* does not, as fclose
Clear(r)          == Step("clear", r, {}, <<>>)  \* r = NULL
ErrPtr(r)         == Step("errptr", r, {}, <<>>) \* r = an error code, not a pointer
Give(r)           == Step("give", r, {r}, <<>>)  \* somebody else owns r from here on
If(r, then)       == Step("if", r, {}, then)     \* if(r != NULL)
Opt(then)         == Step("opt", "", {}, then)   \* an if on data
Loop(body)        == Step("loop", "", {}, body)  \* any number of rounds
Ret(v)            == Step("ret", v, {}, <<>>)    \* v: "ok", "error" or "void"
Exit              == Step("exit", "", {}, <<>>)  \* exit(): the process ends
Lock(m)           == Step("lock", m, {}, <<>>)
Unlock(m)         == Give(m)
Spawn(t, body)    == Step("spawn", t, {}, body)  \* a thread t starts with body
Join(t)           == Step("join", t, {}, <<>>)

FreeEach(s) == [k \in DOMAIN s |-> Free(s[k])]
ok     == <<Ret("ok")>>
failed == <<Ret("error")>>
void   == <<Ret("void")>>

\* No argument is a resource, no variable is uninitialised, nothing is known to be
\* wrong: what is not so is said with EXCEPT.  leaks names the resources the function is
\* known to lose, dangling the threads and the stale pointers they are known to use; a
\* silent function reports success after a failure it has seen.
Proc(body) == [body |-> body, args |-> {}, junk |-> {}, leaks |-> {}, dangling |-> {},
               silent |-> FALSE]
=============================================================================
