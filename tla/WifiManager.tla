---------------------------- MODULE WifiManager ------------------------------
(***************************************************************************)
(* Joining Wi-Fi, the setup portal and its DNS server (wifi_manager.c,     *)
(* dns_server.c, and the join of improv_serial.c). The tasks:              *)
(*   handler   the event loop's, which runs event_handler;                 *)
(*   Callers   the web server's and the serial port's, which run           *)
(*             wifi_manager_connect;                                       *)
(*   stopper   stop_portal_task, created when an address is got;           *)
(*   task[s]   the task of DNS server s.                                   *)
(* They share plain static variables without a lock. A step ends where the *)
(* code blocks, or where another task getting in between matters.          *)
(*                                                                         *)
(* The Wi-Fi driver and FreeRTOS are external. An attempt to join ends     *)
(* with an event; connecting and configuring are refused during an         *)
(* attempt; disconnecting posts an event unless the station is down.       *)
(*                                                                         *)
(* Time is kept as far as it orders the tasks. Handling an event and       *)
(* wifi_manager_connect take milliseconds; an attempt to join takes a      *)
(* second or more, the stop task waits 15 s, and a person takes seconds to *)
(* send new credentials: a quiet moment lies between the beginning and the *)
(* end of these. Closing the portal takes about a second: one attempt may  *)
(* fail meanwhile, not several.                                            *)
(***************************************************************************)
EXTENDS Integers, Sequences

CONSTANTS
  Callers,    \* tasks that may call wifi_manager_connect
  Serial,     \* the one of them that waits for the outcome
  Servers,    \* room for DNS servers
  Retries,    \* reconnections tried before the portal opens (5)
  Faults,     \* what may fail: "memory" for a task and its state, "socket"
  MaxEvents,  \* bound on the events waiting in the event loop
  Null        \* no server, and a free port

ASSUME WifiAssumption ==
  /\ Serial \in Callers
  /\ Servers # {} /\ Null \notin Servers
  /\ Retries \in Nat \ {0}
  /\ Faults \subseteq {"memory", "socket"}
  /\ MaxEvents \in Nat \ {0}

VARIABLES
  sta,       \* the station: "down", "trying" or "up"
  mode,      \* "sta", or "apsta" with the access point on
  events,    \* events posted and not yet handled
  lost,      \* has an attempt failed since the portal began to close?
  aged,      \* whether a quiet moment has passed since the "attempt" and
             \* the "wait" under way began
  connected, \* app_state's Wi-Fi flag
  s_has_credentials, s_portal_active, s_retry_count, s_stop_scheduled,
  s_ignore_next_disconnect,
  s_dns,     \* the server start_portal created last
  heap,      \* the servers whose memory is allocated
  running,   \* those told to run
  task,      \* where the task of each is, "none" if its handle is NULL
  port,      \* the server whose socket is bound to port 53
  orphan,    \* a deleted task has left such a socket open
  handler,   \* where event_handler is
  stopper,   \* where stop_portal_task is
  server,    \* the argument of its dns_server_stop
  caller     \* where each caller is in wifi_manager_connect

driver == <<sta, mode, events, lost>>
flags == <<s_has_credentials, s_portal_active, s_retry_count, s_stop_scheduled,
           s_ignore_next_disconnect>>
dns == <<s_dns, heap, running, task, port, orphan>>
vars == <<driver, aged, connected, flags, dns, handler, stopper, server, caller>>

(* Every variable keeps its type: the flags are those of wifi_manager.c,   *)
(* a server that runs has its memory.                                      *)
WifiTypeOK ==
  /\ sta \in {"down", "trying", "up"}
  /\ mode \in {"sta", "apsta"}
  /\ events \in Seq({"disconnected", "got_ip"})
  /\ lost \in BOOLEAN
  /\ aged \in [{"attempt", "wait"} -> BOOLEAN]
  /\ connected \in BOOLEAN
  /\ s_has_credentials \in BOOLEAN
  /\ s_portal_active \in BOOLEAN
  /\ s_retry_count \in 0..Retries + 1
  /\ s_stop_scheduled \in BOOLEAN
  /\ s_ignore_next_disconnect \in BOOLEAN
  /\ s_dns \in Servers \cup {Null}
  /\ heap \subseteq Servers /\ running \subseteq heap
  /\ task \in [Servers -> {"none", "start", "serve", "close", "end"}]
  /\ port \in Servers \cup {Null} /\ orphan \in BOOLEAN
  /\ handler \in {"idle", "open", "dns"}
  /\ stopper \in {"none", "wait", "dns", "await", "mode", "flag", "end"}
  /\ server \in Servers \cup {Null}
  /\ caller \in [Callers -> {"idle", "open", "dns", "mode", "check", "disconnect",
                             "connect", "poll", "done"}]

(* wifi_manager_init and wifi_manager_start: stored credentials are tried, *)
(* without them the portal opens.                                          *)
Init ==
  /\ s_has_credentials \in BOOLEAN
  /\ sta = IF s_has_credentials THEN "trying" ELSE "down"
  /\ mode = IF s_has_credentials THEN "sta" ELSE "apsta"
  /\ s_portal_active = ~s_has_credentials
  /\ s_dns \in IF s_has_credentials THEN {Null} ELSE Servers
  /\ heap = {s_dns} \ {Null} /\ running = heap
  /\ task = [s \in Servers |-> IF s = s_dns THEN "start" ELSE "none"]
  /\ port = Null /\ orphan = FALSE
  /\ events = <<>> /\ lost = FALSE /\ connected = FALSE
  /\ s_retry_count = 0
  /\ s_stop_scheduled = FALSE /\ s_ignore_next_disconnect = FALSE
  /\ handler = "idle" /\ stopper = "none" /\ server = Null
  /\ caller = [c \in Callers |-> "idle"]
  /\ aged = [w \in {"attempt", "wait"} |-> FALSE]

Busy(c) == caller[c] \notin {"idle", "poll", "done"}

(* An attempt or a wait begins; later nobody is in the middle of a call.   *)
Begins(w) == aged' = [aged EXCEPT ![w] = FALSE]

TimePasses ==
  /\ events = <<>> /\ handler = "idle"
  /\ \A c \in Callers : ~Busy(c)
  /\ aged' = [w \in {"attempt", "wait"} |-> TRUE]
  /\ caller' = [c \in Callers |-> IF caller[c] = "done" THEN "idle" ELSE caller[c]]
  /\ <<aged, caller>>' # <<aged, caller>>
  /\ UNCHANGED <<driver, connected, flags, dns, handler, stopper, server>>

----------------------------------------------------------------------------
(* The driver.                                                             *)

Closing == stopper \in {"dns", "await", "mode", "flag"}

(* "trying" lasts until the driver reports an address or a disconnection:  *)
(* the station associates, and then waits for a lease. event_handler is    *)
(* told nothing in between, and no timer ends the wait for a lease.        *)
Joined ==
  /\ sta = "trying" /\ aged["attempt"] /\ Len(events) < MaxEvents
  /\ sta' = "up"
  /\ events' = Append(events, "got_ip")
  /\ UNCHANGED <<mode, lost, aged, connected, flags, dns, handler, stopper, server, caller>>

AttemptFails ==
  /\ sta = "trying" /\ aged["attempt"] /\ Len(events) < MaxEvents
  /\ ~(Closing /\ lost)
  /\ sta' = "down"
  /\ lost' = Closing
  /\ events' = Append(events, "disconnected")
  /\ UNCHANGED <<mode, aged, connected, flags, dns, handler, stopper, server, caller>>

LinkBreaks ==
  /\ sta = "up" /\ Len(events) < MaxEvents
  /\ sta' = "down"
  /\ events' = Append(events, "disconnected")
  /\ UNCHANGED <<mode, lost, aged, connected, flags, dns, handler, stopper, server, caller>>

----------------------------------------------------------------------------
(* dns_server.c: dns_server_start, by whoever opens the portal, and the    *)
(* task. Its socket or its bind may fail; it looks at `running` whenever   *)
(* its receive ends, at the latest after a second.                         *)

(* Slip: the structure is zeroed and running never set.                    *)
NotToldToRun ==
  \/ \E s \in Servers \ heap :
       /\ s_dns' = s
       /\ heap' = heap \cup {s}
       /\ task' = [task EXCEPT ![s] = "start"]
       /\ UNCHANGED <<running, port, orphan>>
  \/ /\ "memory" \in Faults \/ heap = Servers
     /\ s_dns' = Null
     /\ UNCHANGED <<heap, running, task, port, orphan>>

dns_server_start ==
  \/ \E s \in Servers \ heap :
       /\ s_dns' = s
       /\ heap' = heap \cup {s} /\ running' = running \cup {s}
       /\ task' = [task EXCEPT ![s] = "start"]
       /\ UNCHANGED <<port, orphan>>
  \/ /\ "memory" \in Faults \/ heap = Servers
     /\ s_dns' = Null
     /\ UNCHANGED <<heap, running, task, port, orphan>>

TaskGoes(s, from, to) == task[s] = from /\ task' = [task EXCEPT ![s] = to]

DnsBinds(s) ==
  /\ TaskGoes(s, "start", "serve")
  /\ port = Null /\ ~orphan
  /\ port' = s
  /\ UNCHANGED <<s_dns, heap, running, orphan>>

DnsBindFails(s) ==
  /\ TaskGoes(s, "start", "none")
  /\ port # Null \/ orphan \/ "socket" \in Faults
  /\ running' = running \ {s}
  /\ UNCHANGED <<s_dns, heap, port, orphan>>

DnsLeavesLoop(s) ==
  /\ TaskGoes(s, "serve", "close")
  /\ s \notin running \/ "socket" \in Faults
  /\ UNCHANGED <<s_dns, heap, running, port, orphan>>

DnsCloses(s) ==
  /\ TaskGoes(s, "close", "end")
  /\ port' = Null
  /\ UNCHANGED <<s_dns, heap, running, orphan>>

DnsEnds(s) ==
  /\ TaskGoes(s, "end", "none")
  /\ UNCHANGED <<s_dns, heap, running, port, orphan>>

DnsTask(s) ==
  /\ DnsBinds(s) \/ DnsBindFails(s) \/ DnsLeavesLoop(s) \/ DnsCloses(s) \/ DnsEnds(s)
  /\ UNCHANGED <<driver, aged, connected, flags, handler, stopper, server, caller>>

----------------------------------------------------------------------------
(* start_portal, once s_portal_active was found false: the access point,   *)
(* then the DNS server and the flag.                                       *)

(* esp_wifi_set_mode(WIFI_MODE_APSTA) changes nothing but the mode.        *)
AccessPointOn == mode' = "apsta" /\ UNCHANGED <<sta, events, lost>>

PortalOn ==
  /\ dns_server_start
  /\ s_portal_active' = TRUE
  /\ UNCHANGED <<s_has_credentials, s_retry_count, s_stop_scheduled, s_ignore_next_disconnect>>

(* event_handler. esp_wifi_connect is refused unless the station is down.  *)

Takes(event) ==
  /\ handler = "idle" /\ events # <<>> /\ Head(events) = event
  /\ events' = Tail(events)

DisconnectIgnored ==
  /\ Takes("disconnected")
  /\ s_ignore_next_disconnect
  /\ s_ignore_next_disconnect' = FALSE
  /\ connected' = FALSE
  /\ UNCHANGED <<sta, mode, lost, aged, s_has_credentials, s_portal_active, s_retry_count,
                 s_stop_scheduled, dns, handler, stopper, server, caller>>

Retried == s_has_credentials /\ s_retry_count < Retries

(* Slip: the retries are not counted.                                      *)
NotCounted ==
  /\ Takes("disconnected")
  /\ ~s_ignore_next_disconnect /\ Retried
  /\ connected' = FALSE
  /\ IF sta = "down" THEN sta' = "trying" /\ Begins("attempt") ELSE UNCHANGED <<sta, aged>>
  /\ UNCHANGED <<mode, lost, flags, dns, handler, stopper, server, caller>>

Reconnect ==
  /\ Takes("disconnected")
  /\ ~s_ignore_next_disconnect /\ Retried
  /\ connected' = FALSE
  /\ s_retry_count' = s_retry_count + 1
  /\ IF sta = "down" THEN sta' = "trying" /\ Begins("attempt") ELSE UNCHANGED <<sta, aged>>
  /\ UNCHANGED <<mode, lost, s_has_credentials, s_portal_active, s_stop_scheduled,
                 s_ignore_next_disconnect, dns, handler, stopper, server, caller>>

(* Past Retries the counter no longer matters; it is kept at Retries + 1.  *)
GiveUp ==
  /\ Takes("disconnected")
  /\ ~s_ignore_next_disconnect /\ ~Retried
  /\ connected' = FALSE
  /\ s_retry_count' = IF s_has_credentials THEN Retries + 1 ELSE s_retry_count
  /\ handler' = IF s_portal_active THEN "idle" ELSE "open"
  /\ UNCHANGED <<sta, mode, lost, aged, s_has_credentials, s_portal_active, s_stop_scheduled,
                 s_ignore_next_disconnect, dns, stopper, server, caller>>

HandlerOpens ==
  \/ /\ handler = "open" /\ handler' = "dns"
     /\ AccessPointOn
     /\ UNCHANGED <<aged, connected, flags, dns, stopper, server, caller>>
  \/ /\ handler = "dns" /\ handler' = "idle"
     /\ PortalOn
     /\ UNCHANGED <<driver, aged, connected, stopper, server, caller>>

(* The stop task's creation is not checked.                                *)
GotIp ==
  /\ Takes("got_ip")
  /\ connected' = TRUE
  /\ s_retry_count' = 0
  /\ IF s_portal_active /\ ~s_stop_scheduled
     THEN /\ s_stop_scheduled' = TRUE
          /\ \/ stopper' = "wait" /\ Begins("wait")
             \/ "memory" \in Faults /\ UNCHANGED <<stopper, aged>>
     ELSE UNCHANGED <<s_stop_scheduled, stopper, aged>>
  /\ UNCHANGED <<sta, mode, lost, s_has_credentials, s_portal_active,
                 s_ignore_next_disconnect, dns, handler, server, caller>>

----------------------------------------------------------------------------
(* stop_portal_task                                                        *)

StopperGoes(from, to) == stopper = from /\ stopper' = to

StopCheck ==
  /\ StopperGoes("wait", IF s_portal_active /\ connected THEN "dns" ELSE "end")
  /\ aged["wait"]
  /\ lost' = FALSE
  /\ UNCHANGED <<sta, mode, events, aged, connected, flags, dns, handler, server, caller>>

(* dns_server_stop: the flag, up to a second of waiting, then force. The   *)
(* socket of a deleted task stays open.                                    *)
StopDns ==
  /\ StopperGoes("dns", IF s_dns = Null THEN "mode" ELSE "await")
  /\ server' = s_dns
  /\ running' = running \ {s_dns}
  /\ UNCHANGED <<driver, aged, connected, flags, s_dns, heap, task, port, orphan, handler,
                 caller>>

Freed(s) ==
  /\ heap' = heap \ {s} /\ running' = running \ {s}
  /\ s_dns' = Null
  /\ server' = Null

DnsStopped ==
  /\ StopperGoes("await", "mode")
  /\ task[server] = "none"
  /\ Freed(server)
  /\ UNCHANGED <<driver, aged, connected, flags, task, port, orphan, handler, caller>>

(* Slip: the task that did not stop in time is not deleted.                *)
LeftRunning ==
  /\ StopperGoes("await", "mode")
  /\ task[server] # "none"
  /\ Freed(server)
  /\ UNCHANGED <<driver, aged, connected, flags, task, port, orphan, handler, caller>>

(* The look at server->task and vTaskDelete are taken for one step. A task *)
(* that ends by itself between the two is left out: vTaskDelete then meets *)
(* NULL, its caller, and the portal stays open without DNS.                *)
DnsDeleted ==
  /\ StopperGoes("await", "mode")
  /\ task[server] # "none"
  /\ task' = [task EXCEPT ![server] = "none"]
  /\ orphan' = (orphan \/ port = server)
  /\ port' = IF port = server THEN Null ELSE port
  /\ Freed(server)
  /\ UNCHANGED <<driver, aged, connected, flags, handler, caller>>

StopAccessPoint ==
  /\ StopperGoes("mode", "flag")
  /\ mode' = "sta"
  /\ UNCHANGED <<sta, events, lost, aged, connected, flags, dns, handler, server, caller>>

(* Slip: s_portal_active is not reset.                                     *)
StillActive ==
  /\ StopperGoes("flag", "end")
  /\ UNCHANGED <<driver, aged, connected, flags, dns, handler, server, caller>>

StopFlag ==
  /\ StopperGoes("flag", "end")
  /\ s_portal_active' = FALSE
  /\ UNCHANGED <<driver, aged, connected, s_has_credentials, s_retry_count, s_stop_scheduled,
                 s_ignore_next_disconnect, dns, handler, server, caller>>

StopEnds ==
  /\ StopperGoes("end", "none")
  /\ s_stop_scheduled' = FALSE
  /\ UNCHANGED <<driver, aged, connected, s_has_credentials, s_portal_active, s_retry_count,
                 s_ignore_next_disconnect, dns, handler, server, caller>>

----------------------------------------------------------------------------
(* wifi_manager_connect                                                    *)

CallerGoes(c, from, to) == caller[c] = from /\ caller' = [caller EXCEPT ![c] = to]

Connect(c) ==
  /\ CallerGoes(c, "idle", IF s_portal_active THEN "mode" ELSE "open")
  /\ s_has_credentials' = TRUE
  /\ s_retry_count' = 0
  /\ UNCHANGED <<driver, aged, connected, s_portal_active, s_stop_scheduled,
                 s_ignore_next_disconnect, dns, handler, stopper, server>>

CallerOpens(c) ==
  \/ /\ CallerGoes(c, "open", "dns")
     /\ AccessPointOn
     /\ UNCHANGED <<aged, connected, flags, dns, handler, stopper, server>>
  \/ /\ CallerGoes(c, "dns", "mode")
     /\ PortalOn
     /\ UNCHANGED <<driver, aged, connected, handler, stopper, server>>

(* esp_wifi_set_mode, then esp_wifi_set_config, which is refused while the *)
(* station associates.                                                     *)
SetCredentials(c) ==
  /\ \/ CallerGoes(c, "mode", "check")
     \/ sta = "trying" /\ CallerGoes(c, "mode", "done")
  /\ AccessPointOn
  /\ UNCHANGED <<aged, connected, flags, dns, handler, stopper, server>>

CheckConnected(c) ==
  /\ CallerGoes(c, "check", IF connected THEN "disconnect" ELSE "connect")
  /\ UNCHANGED <<driver, aged, connected, flags, dns, handler, stopper, server>>

Disconnect(c) ==
  /\ CallerGoes(c, "disconnect", "connect")
  /\ s_ignore_next_disconnect' = TRUE
  /\ sta' = "down"
  /\ events' = IF sta = "down" THEN events ELSE Append(events, "disconnected")
  /\ UNCHANGED <<mode, lost, aged, connected, s_has_credentials, s_portal_active,
                 s_retry_count, s_stop_scheduled, dns, handler, stopper, server>>

(* The serial port's task then waits for the outcome.                      *)
StartAttempt(c) ==
  /\ CallerGoes(c, "connect", IF c = Serial THEN "poll" ELSE "done")
  /\ sta = "down"
  /\ sta' = "trying"
  /\ Begins("attempt")
  /\ UNCHANGED <<mode, events, lost, connected, flags, dns, handler, stopper, server>>

(* Slip: s_ignore_next_disconnect is not reset.                            *)
StillIgnoring(c) ==
  /\ CallerGoes(c, "connect", "done")
  /\ sta # "down"
  /\ UNCHANGED <<driver, aged, connected, flags, dns, handler, stopper, server>>

AttemptRefused(c) ==
  /\ CallerGoes(c, "connect", "done")
  /\ sta # "down"
  /\ s_ignore_next_disconnect' = FALSE
  /\ UNCHANGED <<driver, aged, connected, s_has_credentials, s_portal_active, s_retry_count,
                 s_stop_scheduled, dns, handler, stopper, server>>

(* handle_wifi_settings: PROVISIONED, or UNABLE_TO_CONNECT after 30 s.     *)
JoinReported(c) ==
  /\ CallerGoes(c, "poll", "done")
  /\ UNCHANGED <<driver, aged, connected, flags, dns, handler, stopper, server>>

(* wifi_manager_forget: the credentials are erased and the device starts   *)
(* again, with the portal.                                                 *)
Forget(c) ==
  /\ caller[c] = "idle"
  /\ sta' = "down" /\ mode' = "apsta" /\ events' = <<>> /\ lost' = FALSE
  /\ aged' = [w \in {"attempt", "wait"} |-> FALSE]
  /\ connected' = FALSE
  /\ s_has_credentials' = FALSE /\ s_portal_active' = TRUE /\ s_retry_count' = 0
  /\ s_stop_scheduled' = FALSE /\ s_ignore_next_disconnect' = FALSE
  /\ \E s \in Servers :
       /\ s_dns' = s /\ heap' = {s} /\ running' = {s}
       /\ task' = [t \in Servers |-> IF t = s THEN "start" ELSE "none"]
  /\ port' = Null /\ orphan' = FALSE
  /\ handler' = "idle" /\ stopper' = "none" /\ server' = Null
  /\ caller' = [d \in Callers |-> "idle"]

Calling(c) ==
  \/ CallerOpens(c) \/ SetCredentials(c) \/ CheckConnected(c)
  \/ Disconnect(c) \/ StartAttempt(c) \/ AttemptRefused(c) \/ JoinReported(c)

Handling == DisconnectIgnored \/ Reconnect \/ GiveUp \/ HandlerOpens \/ GotIp

Stopping ==
  \/ StopCheck \/ StopDns \/ DnsStopped \/ DnsDeleted
  \/ StopAccessPoint \/ StopFlag \/ StopEnds

Next ==
  \/ TimePasses \/ Joined \/ AttemptFails \/ LinkBreaks
  \/ Handling \/ Stopping
  \/ \E c \in Callers : Connect(c) \/ Calling(c) \/ Forget(c)
  \/ \E s \in Servers : DnsTask(s)

Safety == Init /\ [][Next]_vars

(* Every task keeps running and quiet moments come. Nobody has to send     *)
(* credentials, no link has to break, and an attempt need not end.         *)
Fairness ==
  /\ WF_vars(Handling) /\ WF_vars(Stopping)
  /\ WF_vars(TimePasses)
  /\ \A c \in Callers : WF_vars(Calling(c))
  /\ \A s \in Servers : WF_vars(DnsTask(s))

Spec == Safety /\ Fairness

----------------------------------------------------------------------------
AtRest ==
  /\ events = <<>> /\ handler = "idle" /\ stopper = "none"
  /\ \A c \in Callers : ~Busy(c)
  /\ \A s \in Servers : task[s] \in {"none", "serve"}

PortalOpen == mode = "apsta" /\ s_portal_active

(* The device can always be reached: once all tasks have come to rest with *)
(* the station down, the access point is on and the portal known to be     *)
(* open, however closing it, retries and new credentials interleaved.      *)
NeverStranded == AtRest /\ sta = "down" => PortalOpen

(* A disconnect that nobody asked for is never ignored: when no call is    *)
(* under way and no disconnect waits to be handled, event_handler would    *)
(* retry or open the portal at the next one.                               *)
NothingIgnored ==
  /\ \A c \in Callers : ~Busy(c)
  /\ \A i \in 1..Len(events) : events[i] # "disconnected"
  => ~s_ignore_next_disconnect

(* dns_server_stop frees the memory of a server only when its task no      *)
(* longer uses it, whether the task ended in time or was deleted.          *)
MemoryInUse == \A s \in Servers : task[s] # "none" => s \in heap

(* An open portal whose DNS server could be started answers on port 53,    *)
(* even if two tasks opened it at the same time, unless the forced end of  *)
(* an earlier server left the port taken.                                  *)
DnsFunnel == AtRest /\ s_portal_active /\ s_dns # Null /\ ~orphan => port # Null

(* Again and again the device is on the network, or offers its portal, or  *)
(* is taking new credentials: retries end and the portal follows. The one  *)
(* exception is an attempt that neither succeeds nor fails, of a station   *)
(* that is associated and never gets an address: nothing ends it.          *)
SetupFallback ==
  <>[](sta = "trying") \/ []<>(sta = "up" \/ PortalOpen \/ \E c \in Callers : Busy(c))
=============================================================================
