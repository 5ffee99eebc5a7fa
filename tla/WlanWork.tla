------------------------------ MODULE WlanWork -------------------------------
(***************************************************************************)
(* The wireless device of kdev-net-wlan: cfg80211 asks it to scan, connect *)
(* or disconnect, the callback leaves what was asked in the context and    *)
(* schedules a work item, and the routine of the work item answers.  A     *)
(* work item has the name of the field it finds in the context.            *)
(*                                                                         *)
(* cfg80211 makes one call at a time.  It asks for a connection, or for    *)
(* its end, when it waits for no answer to the same; it may ask for a scan *)
(* at any time.  Calls before the end of virtual_wifi_init are left out.   *)
(***************************************************************************)
EXTENDS Naturals, Sequences

CONSTANT MaxCalls        \* calls of cfg80211

scan == "scan_request"
connect == "connecting_ssid"
disconnect == "disconnect_reason_code"
Works == {scan, connect, disconnect}
NULL == 0
SSID_DUMMY == 1          \* as a field of connect; requests and reasons are numbers too

VARIABLES field,         \* the context
          callback,      \* the call cfg80211 is in: the work item, and what it leaves
          queued, running,       \* work items
          asked,         \* what cfg80211 waits for
          answer,        \* the last answer, the one due, and what was then waited for
          calls, unload, requeued

wlanVars == <<field, callback, queued, running, asked, answer, calls, unload, requeued>>

Nobody == <<>>
Answer(given, due, waited) == [given |-> given, due |-> due, waited |-> waited]

Init ==
    /\ field = [w \in Works |-> NULL] /\ asked = field
    /\ callback = Nobody /\ queued = {} /\ running = {} /\ requeued = {}
    /\ answer = Answer(0, 0, 1) /\ calls = 0 /\ unload = <<>>

-----------------------------------------------------------------------------
\* unload is what virtual_wifi_exit has done so far.
Cancelled(w) == \E k \in DOMAIN unload : unload[k] = w
Freed == Cancelled("freed")
Order == <<connect, disconnect, scan, "freed">>

Ask(w, v) ==
    /\ callback = Nobody /\ ~Freed /\ calls < MaxCalls /\ calls' = calls + 1
    /\ field' = [field EXCEPT ![w] = v] /\ callback' = <<w, v>>
    /\ UNCHANGED <<queued, running, asked, answer, unload, requeued>>

\* A scan while one is under way is refused.
wi_scan == field[scan] = NULL /\ Ask(scan, calls + 1)
wi_connect == asked[connect] = NULL /\ \E ssid \in {SSID_DUMMY, 2} : Ask(connect, ssid)
wi_disconnect == asked[disconnect] = NULL /\ Ask(disconnect, calls + 1)

\* The callback returns -EBUSY when the work item is queued already.
schedule_work ==
    /\ callback # Nobody /\ callback' = Nobody
    /\ LET w == callback[1] IN
       IF w \in queued THEN UNCHANGED <<queued, asked, requeued>>
       ELSE /\ queued' = queued \union {w} /\ asked' = [asked EXCEPT ![w] = callback[2]]
            /\ requeued' = IF Cancelled(w) THEN requeued \union {w} ELSE requeued
    /\ UNCHANGED <<field, running, answer, calls, unload>>

Run(w) ==
    /\ w \in queued \ running /\ ~Freed
    /\ queued' = queued \ {w} /\ running' = running \union {w}
    /\ UNCHANGED <<field, callback, asked, answer, calls, unload, requeued>>

Routine(w, given, due) ==
    /\ w \in running /\ ~Freed /\ running' = running \ {w}
    /\ answer' = Answer(given, due, asked[w])
    /\ field' = [field EXCEPT ![w] = NULL] /\ asked' = [asked EXCEPT ![w] = NULL]
    /\ UNCHANGED <<queued, callback, calls, unload, requeued>>
Verdict(ssid) == IF ssid = SSID_DUMMY THEN 1 ELSE 2

\* It sleeps and informs of the network, which changes nothing here, and then answers.
wlanidt_scan_routine == Routine(scan, field[scan], asked[scan])
\* Connected, or timed out.
wlanidt_connect_routine == Routine(connect, Verdict(field[connect]), Verdict(asked[connect]))
wlanidt_disconnect_routine ==
    Routine(disconnect, field[disconnect], asked[disconnect])

\* cancel_work_sync for each work item, which takes it from the queue and waits for it;
\* then wlanidt_free, which waits for callbacks as the device is unregistered.
virtual_wifi_exit ==
    /\ ~Freed
    /\ LET next == Order[Len(unload) + 1] IN
       /\ next \notin running /\ queued' = queued \ {next}
       /\ next = "freed" => callback = Nobody
       /\ unload' = Append(unload, next)
    /\ UNCHANGED <<field, callback, running, asked, answer, calls, requeued>>

Routines == wlanidt_scan_routine \/ wlanidt_connect_routine \/ wlanidt_disconnect_routine

Next ==
    \/ wi_scan \/ wi_connect \/ wi_disconnect \/ schedule_work
    \/ (\E w \in Works : Run(w)) \/ Routines \/ virtual_wifi_exit
    \/ Freed /\ UNCHANGED wlanVars

-----------------------------------------------------------------------------
\* Whatever is asked while routines run, the routine answers the scan cfg80211 waits
\* for, and a connection with the verdict on the network it was asked for; no answer is
\* given twice.
AnswersItsRequest == answer.given = answer.due /\ answer.waited # NULL

\* When the context is freed no work item is queued or running that would follow it, but
\* for those a callback has scheduled after they were cancelled.
NoWorkOnFreed == Freed => queued \union running \subseteq requeued

\* Every scan, connection and end of one that was accepted is answered, unless the
\* module is being unloaded: after its last call cfg80211 waits for nothing.
AcceptedIsAnswered == <>[](unload # <<>> \/ \A w \in Works : asked[w] = NULL)
=============================================================================
