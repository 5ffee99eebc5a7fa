---------------------------- MODULE KernelModules ----------------------------
(***************************************************************************)
(* The other kernel modules as procedures: the files in /proc, /sys and    *)
(* debugfs, memory, character and misc devices, interrupts, timers, work   *)
(* queues and the pointer two modules share.  As in NetModules, a load     *)
(* that succeeds is followed by the unload; readers, writers, interrupts   *)
(* and work items are threads beside it.  text stands for the code of the  *)
(* module, which is gone when the unload is over.                          *)
(***************************************************************************)
EXTENDS Steps, Integers, Sequences, SequencesExt

N == INSTANCE NetModules
Module(init, exit) == N!Module(init, exit)

\* A handler of a file: nothing is done when a signal ends the wait for the mutex.
Guarded(body) == <<Try({}, failed), Lock("mtx")>> \o body \o <<Unlock("mtx")>>
CopyFailureUnreported(uses) == Guarded(<<Try(uses, <<Unlock("mtx")>> \o ok)>>)
\* What it does may fail and is then left through the unlock.
GuardedTry(uses) == Guarded(<<Try(uses, <<Unlock("mtx")>> \o failed)>>)

-----------------------------------------------------------------------------
\* kfs-proc
proc_show == Guarded(<<Use({"gdrvctx"})>>) \o ok
myproc_write == Guarded(<<Try({}, <<Unlock("mtx")>> \o failed), Use({"gdrvctx"})>>) \o ok
myproc_write_config1 == [Proc(myproc_write) EXCEPT !.args = {"gdrvctx"}]
myproc_write_debug_level == [Proc(myproc_write) EXCEPT !.args = {"gdrvctx"}]
proc_show_config1 == [Proc(proc_show) EXCEPT !.args = {"gdrvctx"}]
proc_show_drvctx == [Proc(proc_show) EXCEPT !.args = {"gdrvctx"}]
proc_show_debug_level == Proc(Guarded(<<Use({})>>) \o ok)

alloc_init_drvctx(err) ==
    <<Get("gdrvctx", {}, <<ErrPtr("gdrvctx")>> \o err), Use({"gdrvctx"})>>

\* The first file is there, and may be written, before the driver context is, or when an
\* error code stands in its place.  When the file cannot be made the directory stays behind.  remove_proc_subtree waits for the users of
\* the files, but the error exit frees the context before that.
procfs_user == <<If("file1", myproc_write)>>
remove_proc_subtree == <<Join("user"), Free("file1"), Free("gprocdir")>>
procfs_if_init ==
    LET fail_2 == remove_proc_subtree \o failed
        fail_3 == <<Free("gdrvctx")>> \o fail_2
    IN  <<Try({}, failed), Get("gprocdir", {}, failed), Get("file1", {"gprocdir"}, failed),
          Spawn("user", procfs_user), Try({"gprocdir"}, fail_2)>> \o
        alloc_init_drvctx(fail_2) \o <<Try({"gprocdir"}, fail_3), Try({"gprocdir"}, fail_3)>>
procfs_if_cleanup == <<Use({"gdrvctx"})>> \o remove_proc_subtree \o <<Free("gdrvctx")>>
procfs_if == [Module(procfs_if_init, procfs_if_cleanup) EXCEPT
                !.leaks = {"gprocdir"}, !.dangling = {<<"user", "gdrvctx">>}]

\* kfs-debug: a NULL is turned into the error code 0, so that a load that failed is a
\* success, and the unload frees again what the error exit has freed.  The context is
\* freed while its file can still be read; with cause_an_oops the files stay.
dbgfs_show_drvctx == <<If("file1", Guarded(<<Use({"gdrvctx"})>>))>>
debugfs_if_cleanup ==
    <<Free("gdrvctx"), Opt(<<Free("file1"), Free("gparent")>>)>> \o ok
debugfs_if_init ==
    LET fail_2 == <<Free("gparent")>> \o failed
        fail_3 == <<Free("gdrvctx"), Free("gparent")>> \o debugfs_if_cleanup
    IN  <<Try({}, failed), Get("gparent", {}, debugfs_if_cleanup)>> \o
        alloc_init_drvctx(fail_2) \o
        <<Get("file1", {"gparent", "gdrvctx"}, fail_3), Spawn("user", dbgfs_show_drvctx)>>
debugfs_if == [Module(debugfs_if_init, debugfs_if_cleanup) EXCEPT
                 !.leaks = {"gparent", "file1"},
                 !.dangling = {<<"main", "gdrvctx">>, <<"user", "gdrvctx">>},
                 !.silent = TRUE]

\* kfs-sys
sysfs_show == Proc(Guarded(<<Use({})>>) \o ok)
debug_level_store == Proc(GuardedTry({}) \o ok)
sysfs_if_init ==
    LET out2 == <<Free("platdev")>> \o failed
        out3 == <<Free("file1")>> \o out2
        out4 == <<Free("pgoff")>> \o out3
    IN  <<Try({}, failed), Get("platdev", {}, failed), Get("file1", {"platdev"}, out2),
          Get("pgoff", {"platdev"}, out3), Get("pressure", {"platdev"}, out4)>>
sysfs_if_cleanup == FreeEach(<<"pressure", "pgoff", "file1", "platdev">>)
sysfs_if == Module(sysfs_if_init, sysfs_if_cleanup)

-----------------------------------------------------------------------------
\* Blocks acquired one after the other; each failure frees the ones before it.
Chain(blocks) ==
    [i \in DOMAIN blocks |->
        Get(blocks[i], {}, FreeEach(Reverse(SubSeq(blocks, 1, i - 1))) \o failed)]
ChainModule(blocks) == Module(Chain(blocks), FreeEach(Reverse(blocks)))

bsa_alloc == ChainModule(<<"gptr1", "gptr2", "gptr3", "gptr4", "gptr5">>)
vmalloc_try == ChainModule(<<"vptr_rndm", "vptr_init", "kv", "kvarr", "vrx">>)
slab1 == ChainModule(<<"gkptr", "ctx">>)
\* krealloc fails and leaves the old block alone; its address is overwritten.
krealloc == [Module(<<Get("gkptr", {}, failed), Use({"gkptr"}),
                      Opt(<<Clear("gkptr"), Free("gkptr")>> \o failed), Use({"gkptr"})>>,
                    <<Free("gkptr")>>) EXCEPT !.leaks = {"gkptr"}]

-----------------------------------------------------------------------------
\* The misc devices.  The device is registered before its context exists, and stays
\* registered when there is no memory for it; the context goes with the device.
misc_init == <<Get("miscdev", {}, failed), Get("ctx", {"miscdev"}, failed), Use({"ctx"})>>
misc_exit == <<Use({"ctx"}), Free("ctx"), Free("miscdev")>>
MiscModule == [Module(misc_init, misc_exit) EXCEPT !.leaks = {"miscdev"}]
miscdrv_rdwr == MiscModule
miscdrv_mutexlock == MiscModule
miscdrv_spinlock == MiscModule

\* open and close: the two counters, in miscdrv_rdwr with a buffer for the path.
open_rdwr == Proc(<<Get("buf", {}, failed), Use({"buf"}), Free("buf"), Ret("ok")>>)
close_rdwr == open_rdwr
Counted == <<Lock("lock1"), Unlock("lock1")>>
open_mutexlock == Proc(Counted \o ok)
close_mutexlock == open_mutexlock
display_stats == <<Lock("spinlock"), Unlock("spinlock")>>
open_spinlock == Proc(Counted \o display_stats \o ok)
close_spinlock == open_spinlock

read_rdwr == Proc(<<Try({}, failed), Try({}, failed), Ret("ok")>>)
\* The length is read under the lock, the secret of that length under the next lock.
Copied(lock, stats) ==
    <<Lock(lock), Try({}, <<Unlock(lock)>> \o stats \o failed), Unlock(lock)>>
read_mutexlock ==
    Proc(<<Lock("lock"), Unlock("lock"), Try({}, failed)>> \o Copied("lock", <<>>) \o ok)
read_spinlock ==
    Proc(display_stats \o <<Try({}, failed)>> \o Copied("mutex", display_stats) \o ok)

\* A write that is too long is refused, but returns its length.
kbuf(stats) == <<Get("kbuf", {}, failed), Use({"kbuf"}),
                 Try({"kbuf"}, <<Free("kbuf")>> \o stats \o failed)>>
write_rdwr ==
    [Proc(<<Try({}, ok)>> \o kbuf(<<>>) \o <<Use({"kbuf"}), Free("kbuf"), Ret("ok")>>)
        EXCEPT !.silent = TRUE]
write_mutexlock ==
    Proc(kbuf(<<>>) \o <<Lock("lock"), Use({"kbuf"}), Unlock("lock"), Free("kbuf"), Ret("ok")>>)
write_spinlock ==
    Proc(kbuf(display_stats) \o
         <<Lock("spinlock"), Use({"kbuf"}), Unlock("spinlock"), Free("kbuf"), Ret("ok")>>)

-----------------------------------------------------------------------------
\* The character devices.  An open file holds a reference to the module.
char_dev == Module(<<Get("dev_major", {}, failed)>>,
                   <<Loop(<<Get("ref", {"dev_major"}, <<Free("dev_major")>> \o failed),
                            Give("ref")>>), Free("dev_major")>>)
ioctl_kdrv == Module(<<Get("major", {}, failed)>>, <<Free("major")>>)

\* chr_store.  A write of no blocks frees the store and keeps its address: the next write
\* clears and reallocates it, the next empty write and the unload free it once more.  A
\* krealloc that fails overwrites the only pointer to the old block.
device_write_none == <<If("msg", <<Free("msg")>>)>>
device_write == <<Use({"msg"}), Opt(<<Clear("msg")>>), Use({"msg"})>>
device_read == <<Use({"msg"})>>
exit_chr_store == <<Free("dev_major"), If("msg", <<Free("msg")>>)>>
chr_store ==
    [Module(<<Get("dev_major", {}, failed)>>,
            <<May("msg", {}),
              If("msg", <<Loop(<<Opt(device_write_none),
                                 Opt(device_write \o <<Opt(device_read)>>)>>)>>)>> \o
            exit_chr_store) EXCEPT !.dangling = {<<"main", "msg">>}]

-----------------------------------------------------------------------------
\* The interrupt is not missed when it cannot be had: free_irq only warns.
irq_handler == <<If("irq", <<Use({"text"})>>)>>
unloaded == <<Free("text")>>
Loaded(init, exit) == [Module(<<May("irq", {})>> \o init, exit \o unloaded) EXCEPT
                         !.args = {"text"}]
kirq_th == Loaded(<<Spawn("irq1", irq_handler)>>, <<Join("irq1"), Free("irq")>>)
\* free_irq waits for the handler, tasklet_kill for the tasklet: in this order, because
\* the handler schedules the tasklet again for as long as it is there.
TaskletKilledFirst ==
    Loaded(<<Spawn("irq1", <<If("irq", <<Spawn("tasklet", <<Use({"text"})>>)>>)>>)>>,
           <<Join("tasklet"), Join("irq1"), Free("irq")>>)
ktasklet == Loaded(<<Spawn("irq1", <<If("irq", <<Spawn("tasklet", <<Use({"text"})>>)>>)>>)>>,
                   <<Join("irq1"), Free("irq"), Join("tasklet")>>)
kproc == Loaded(<<Get("dev_major", {}, <<Free("irq")>> \o failed),
                  Spawn("irq1", irq_handler)>>,
                <<Join("irq1"), Free("irq"), Free("dev_major")>>)

\* The load waits for the job, unless a signal ends the wait; the unload does not.
kworkqueue ==
    [Proc(<<Spawn("job", <<Use({"text"}), Use({"text"})>>), Opt(<<Join("job")>>),
            Free("text"), Ret("ok")>>) EXCEPT !.args = {"text"}, !.dangling = {<<"job", "text">>}]
\* del_timer stops a timer that is pending, and does not wait for one that runs.
kstdtimer ==
    [Proc(<<Get("armed", {}, failed),
            Spawn("timer", <<If("armed", <<Use({"text"}), Use({"text"})>>)>>),
            Give("armed"), Free("text"), Ret("ok")>>)
        EXCEPT !.args = {"text"}, !.dangling = {<<"timer", "text">>}]
\* The reference to the thread's task is taken so that kthread_stop finds it when a signal
\* has ended it before, and is not put.
kthread_p ==
    [Module(<<Get("gkthrd_ts", {}, failed), Spawn("kthread", <<Use({"text"})>>),
              May("reference", {"gkthrd_ts"})>>,
            <<Use({"gkthrd_ts"}), Join("kthread"), Free("gkthrd_ts")>> \o unloaded)
        EXCEPT !.args = {"text"}, !.leaks = {"reference"}]

\* ksync-rcu-cmap and ksync-rcu: neither unload waits for the callbacks that are pending,
\* and a second thread that cannot be started unloads the module under the first.
rcu_cmap_init ==
    << Get("task_read", {}, <<Free("text")>> \o failed), May("references", {"task_read"}),
       Spawn("reader", <<Use({"text"}), Use({"text"})>>),
       Get("task_write", {}, <<Free("text")>> \o failed),
       Spawn("writer", <<Use({"text"}), Spawn("callback", <<Use({"text"})>>)>>) >>
rcu_cmap_exit ==
    << Join("writer"), Free("task_write"), Join("reader"), Free("task_read"), Free("text") >>
rcu_cmap == [Module(rcu_cmap_init, rcu_cmap_exit) EXCEPT
               !.args = {"text"}, !.leaks = {"references", "task_read"},
               !.dangling = {<<"reader", "text">>, <<"callback", "text">>}]
list_rcu_exit == <<Free("text")>>
list_rcu == [Module(<<Spawn("callback", <<Use({"text"})>>)>>, list_rcu_exit) EXCEPT
               !.args = {"text"}, !.dangling = {<<"callback", "text">>}]

\* The job of left, and right, which replaces the message.  The unload waits until the job
\* has seen that it should end, unless a signal ends the wait.
left_job_handler == <<Loop(<<If("lms", <<Use({"lms"}), Lock("lock"),
                                         If("message", <<Use({"message"})>>),
                                         Use({"lms"}), Unlock("lock")>>)>>)>>
right_init == <<Use({"lms"}), Lock("lock"), Use({"lms", "message"}), Unlock("lock")>>
left ==
    [Module(<<Get("lms", {}, failed), Get("message", {"lms"}, <<Free("lms")>> \o failed),
              Use({"message"}), Spawn("job", left_job_handler),
              Spawn("right", right_init), Join("right")>>,
            <<Opt(<<Join("job")>>), Free("message"), Free("lms")>>)
        EXCEPT !.dangling = {<<"job", "lms">>, <<"job", "message">>}]

-----------------------------------------------------------------------------
FileProcs ==
    [myproc_write_config1 |-> myproc_write_config1,
     myproc_write_debug_level |-> myproc_write_debug_level,
     proc_show_config1 |-> proc_show_config1, proc_show_drvctx |-> proc_show_drvctx,
     proc_show_debug_level |-> proc_show_debug_level, procfs_if |-> procfs_if,
     debugfs_if |-> debugfs_if, sysfs_show |-> sysfs_show,
     debug_level_store |-> debug_level_store, sysfs_if |-> sysfs_if,
     bsa_alloc |-> bsa_alloc, vmalloc_try |-> vmalloc_try, slab1 |-> slab1,
     krealloc |-> krealloc]

DeviceProcs ==
    [miscdrv_rdwr |-> miscdrv_rdwr, miscdrv_mutexlock |-> miscdrv_mutexlock,
     miscdrv_spinlock |-> miscdrv_spinlock, open_rdwr |-> open_rdwr, close_rdwr |-> close_rdwr,
     open_mutexlock |-> open_mutexlock, close_mutexlock |-> close_mutexlock,
     open_spinlock |-> open_spinlock, close_spinlock |-> close_spinlock,
     read_rdwr |-> read_rdwr, read_mutexlock |-> read_mutexlock,
     read_spinlock |-> read_spinlock, write_rdwr |-> write_rdwr,
     write_mutexlock |-> write_mutexlock, write_spinlock |-> write_spinlock,
     char_dev |-> char_dev, ioctl_kdrv |-> ioctl_kdrv, chr_store |-> chr_store,
     kirq_th |-> kirq_th, ktasklet |-> ktasklet, kproc |-> kproc, kworkqueue |-> kworkqueue,
     kstdtimer |-> kstdtimer, kthread_p |-> kthread_p,
     rcu_cmap |-> rcu_cmap, list_rcu |-> list_rcu, left |-> left]
=============================================================================
