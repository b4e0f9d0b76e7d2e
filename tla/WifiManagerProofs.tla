-------------------------- MODULE WifiManagerProofs ---------------------------
(***************************************************************************)
(* Wi-Fi, the portal and its DNS servers, for any number of callers,       *)
(* servers and events: memory in use is not freed, no disconnect is        *)
(* ignored, an open portal is answered, and the device is never stranded.  *)
(***************************************************************************)
EXTENDS WifiManager, FiniteSetTheorems, SequenceTheorems, TLAPS

(* The server that dns_server_stop waits for is one.                       *)
WifiInv ==
  /\ WifiTypeOK
  /\ MemoryInUse
  /\ stopper = "await" => server \in Servers

----------------------------------------------------------------------------
LEMMA InitInv == Init => WifiInv
<1> SUFFICES ASSUME Init PROVE WifiInv
  OBVIOUS
<1>1. /\ lost \in BOOLEAN /\ connected \in BOOLEAN /\ s_has_credentials \in BOOLEAN
      /\ s_portal_active \in BOOLEAN /\ s_stop_scheduled \in BOOLEAN
      /\ s_ignore_next_disconnect \in BOOLEAN /\ orphan \in BOOLEAN
      /\ aged \in [{"attempt", "wait"} -> BOOLEAN]
  BY WifiAssumption DEF Init
<1>2. s_dns \in Servers \cup {Null}
  BY DEF Init
<1>3. WifiTypeOK
  BY <1>1, <1>2, WifiAssumption DEF Init, WifiTypeOK
<1>4. MemoryInUse
  BY <1>2, WifiAssumption DEF Init, MemoryInUse
<1> QED
  BY <1>3, <1>4 DEF Init, WifiInv

(* The driver and the callers leave the DNS servers alone, unless the      *)
(* portal is opened.                                                       *)
LEMMA Start ==
  ASSUME WifiInv, dns_server_start
  PROVE  /\ s_dns' \in Servers \cup {Null}
         /\ heap' \subseteq Servers /\ running' \subseteq heap'
         /\ task' \in [Servers -> {"none", "start", "serve", "close", "end"}]
         /\ port' \in Servers \cup {Null} /\ orphan' \in BOOLEAN
         /\ MemoryInUse'
<1> USE DEF WifiInv, WifiTypeOK, MemoryInUse
<1>1. CASE \E s \in Servers \ heap :
             /\ s_dns' = s
             /\ heap' = heap \cup {s} /\ running' = running \cup {s}
             /\ task' = [task EXCEPT ![s] = "start"]
             /\ UNCHANGED <<port, orphan>>
  BY <1>1
<1>2. CASE s_dns' = Null /\ UNCHANGED <<heap, running, task, port, orphan>>
  BY <1>2
<1> QED
  BY <1>1, <1>2 DEF dns_server_start

(* Steps that touch no DNS server.                                         *)
LEMMA DriverInv ==
  ASSUME WifiInv, TimePasses \/ Joined \/ AttemptFails \/ LinkBreaks
  PROVE  WifiInv'
<1> USE DEF WifiInv, WifiTypeOK, driver, flags, dns
<1>1. UNCHANGED <<flags, dns, stopper, server>>
  BY DEF TimePasses, Joined, AttemptFails, LinkBreaks
<1>2. MemoryInUse' /\ (stopper' = "await" => server' \in Servers)
  BY <1>1 DEF MemoryInUse
<1>3. CASE TimePasses
  BY <1>2, <1>3 DEF TimePasses
<1>4. CASE Joined
  BY <1>2, <1>4 DEF Joined
<1>5. CASE AttemptFails
  <2>1. lost' \in BOOLEAN
    BY <1>5 DEF AttemptFails, Closing
  <2> QED
    BY <1>2, <1>5, <2>1 DEF AttemptFails
<1>6. CASE LinkBreaks
  BY <1>2, <1>6 DEF LinkBreaks
<1> QED
  BY <1>3, <1>4, <1>5, <1>6

LEMMA HandlingInv ==
  ASSUME WifiInv, Handling
  PROVE  WifiInv'
<1> USE WifiAssumption DEF WifiInv, WifiTypeOK, driver, flags, dns
<1>1. CASE DisconnectIgnored
  <2>1. s_ignore_next_disconnect' \in BOOLEAN /\ connected' \in BOOLEAN
    BY <1>1 DEF DisconnectIgnored
  <2>2. MemoryInUse' /\ (stopper' = "await" => server' \in Servers)
    BY <1>1 DEF DisconnectIgnored, MemoryInUse
  <2> QED
    BY <1>1, <2>1, <2>2 DEF DisconnectIgnored, Takes
<1>2. CASE Reconnect
  <2>1. aged' \in [{"attempt", "wait"} -> BOOLEAN] /\ sta' \in {"down", "trying", "up"}
    BY <1>2 DEF Reconnect, Begins
  <2>2. s_retry_count' \in 0..Retries + 1
    BY <1>2 DEF Reconnect, Retried
  <2>3. connected' \in BOOLEAN
    BY <1>2 DEF Reconnect
  <2>4. MemoryInUse' /\ (stopper' = "await" => server' \in Servers)
    BY <1>2 DEF Reconnect, MemoryInUse
  <2> QED
    BY <1>2, <2>1, <2>2, <2>3, <2>4 DEF Reconnect, Takes
<1>3. CASE GiveUp
  <2>1. s_retry_count' \in 0..Retries + 1 /\ connected' \in BOOLEAN
    <3>1. Retries + 1 \in 0..Retries + 1
      OBVIOUS
    <3>2. connected' = FALSE /\ s_retry_count' \in {Retries + 1, s_retry_count}
      BY <1>3 DEF GiveUp
    <3> QED
      BY <3>1, <3>2
  <2>2. MemoryInUse' /\ (stopper' = "await" => server' \in Servers)
    BY <1>3 DEF GiveUp, MemoryInUse
  <2> QED
    BY <1>3, <2>1, <2>2 DEF GiveUp, Takes
<1>4. CASE HandlerOpens
  <2>1. CASE handler = "open"
    BY <1>4, <2>1 DEF HandlerOpens, AccessPointOn, MemoryInUse
  <2>2. CASE handler = "dns"
    <3>1. dns_server_start /\ s_portal_active' = TRUE
      BY <1>4, <2>2 DEF HandlerOpens, PortalOn
    <3> QED
      BY <1>4, <2>2, <3>1, Start DEF HandlerOpens, PortalOn
  <2> QED
    BY <1>4, <2>1, <2>2 DEF HandlerOpens
<1>5. CASE GotIp
  <2>1. /\ aged' \in [{"attempt", "wait"} -> BOOLEAN] /\ s_stop_scheduled' \in BOOLEAN
        /\ stopper' \in {stopper, "wait"}
    BY <1>5 DEF GotIp, Begins
  <2> QED
    BY <1>5, <2>1 DEF GotIp, Takes, MemoryInUse
<1> QED
  BY <1>1, <1>2, <1>3, <1>4, <1>5 DEF Handling

(* The stop task, which frees a server whose task has ended or is deleted. *)
LEMMA StoppingInv ==
  ASSUME WifiInv, Stopping
  PROVE  WifiInv'
<1> USE WifiAssumption DEF WifiInv, WifiTypeOK, driver, flags, dns, StopperGoes
<1>1. CASE StopCheck
  <2>1. lost' \in BOOLEAN /\ stopper' \in {"dns", "end"}
    BY <1>1 DEF StopCheck
  <2>2. MemoryInUse' /\ (stopper' = "await" => server' \in Servers)
    BY <1>1 DEF StopCheck, MemoryInUse
  <2> QED
    BY <1>1, <2>1, <2>2 DEF StopCheck
<1>2. CASE StopDns
  BY <1>2 DEF StopDns, MemoryInUse
<1>3. CASE DnsStopped
  BY <1>3 DEF DnsStopped, Freed, MemoryInUse
<1>4. CASE DnsDeleted
  <2>1. orphan' \in BOOLEAN
    BY <1>4 DEF DnsDeleted
  <2>2. port' \in Servers \cup {Null}
    BY <1>4 DEF DnsDeleted
  <2>3. MemoryInUse'
    BY <1>4 DEF DnsDeleted, Freed, MemoryInUse
  <2> QED
    BY <1>4, <2>1, <2>2, <2>3 DEF DnsDeleted, Freed
<1>5. CASE StopAccessPoint
  BY <1>5 DEF StopAccessPoint, MemoryInUse
<1>6. CASE StopFlag
  <2>1. s_portal_active' \in BOOLEAN
    BY <1>6 DEF StopFlag
  <2>2. MemoryInUse' /\ (stopper' = "await" => server' \in Servers)
    BY <1>6 DEF StopFlag, MemoryInUse
  <2> QED
    BY <1>6, <2>1, <2>2 DEF StopFlag
<1>7. CASE StopEnds
  <2>1. s_stop_scheduled' \in BOOLEAN
    BY <1>7 DEF StopEnds
  <2>2. MemoryInUse' /\ (stopper' = "await" => server' \in Servers)
    BY <1>7 DEF StopEnds, MemoryInUse
  <2> QED
    BY <1>7, <2>1, <2>2 DEF StopEnds
<1> QED
  BY <1>1, <1>2, <1>3, <1>4, <1>5, <1>6, <1>7 DEF Stopping

LEMMA DnsTaskInv ==
  ASSUME WifiInv, NEW s \in Servers, DnsTask(s)
  PROVE  WifiInv'
<1> USE DEF WifiInv, WifiTypeOK, driver, flags, dns, DnsTask, TaskGoes
<1>1. CASE DnsBinds(s)
  BY <1>1 DEF DnsBinds, MemoryInUse
<1>2. CASE DnsBindFails(s)
  BY <1>2 DEF DnsBindFails, MemoryInUse
<1>3. CASE DnsLeavesLoop(s)
  BY <1>3 DEF DnsLeavesLoop, MemoryInUse
<1>4. CASE DnsCloses(s)
  BY <1>4 DEF DnsCloses, MemoryInUse
<1>5. CASE DnsEnds(s)
  BY <1>5 DEF DnsEnds, MemoryInUse
<1> QED
  BY <1>1, <1>2, <1>3, <1>4, <1>5

LEMMA CallersInv ==
  ASSUME WifiInv, NEW c \in Callers, Connect(c) \/ Calling(c)
  PROVE  WifiInv'
<1> USE WifiAssumption DEF WifiInv, WifiTypeOK, driver, flags, dns, CallerGoes
<1>1. CASE Connect(c)
  BY <1>1 DEF Connect, MemoryInUse
<1>2. CASE CallerOpens(c)
  <2>1. CASE caller[c] = "open"
    BY <1>2, <2>1 DEF CallerOpens, AccessPointOn, MemoryInUse
  <2>2. CASE caller[c] = "dns"
    <3>1. dns_server_start /\ s_portal_active' = TRUE
      BY <1>2, <2>2 DEF CallerOpens, PortalOn
    <3> QED
      BY <1>2, <2>2, <3>1, Start DEF CallerOpens, PortalOn
  <2> QED
    BY <1>2, <2>1, <2>2 DEF CallerOpens
<1>3. CASE SetCredentials(c)
  BY <1>3 DEF SetCredentials, AccessPointOn, MemoryInUse
<1>4. CASE CheckConnected(c)
  BY <1>4 DEF CheckConnected, MemoryInUse
<1>5. CASE Disconnect(c)
  BY <1>5 DEF Disconnect, MemoryInUse
<1>6. CASE StartAttempt(c)
  BY <1>6 DEF StartAttempt, Begins, MemoryInUse
<1>7. CASE AttemptRefused(c)
  <2>1. s_ignore_next_disconnect' \in BOOLEAN
    BY <1>7 DEF AttemptRefused
  <2>2. MemoryInUse' /\ (stopper' = "await" => server' \in Servers)
    BY <1>7 DEF AttemptRefused, MemoryInUse
  <2> QED
    BY <1>7, <2>1, <2>2 DEF AttemptRefused
<1>8. CASE JoinReported(c)
  BY <1>8 DEF JoinReported, MemoryInUse
<1> QED
  BY <1>1, <1>2, <1>3, <1>4, <1>5, <1>6, <1>7, <1>8 DEF Calling

LEMMA ForgetInv ==
  ASSUME WifiInv, NEW c \in Callers, Forget(c)
  PROVE  WifiInv'
<1>1. PICK s \in Servers :
        /\ s_dns' = s /\ heap' = {s} /\ running' = {s}
        /\ task' = [t \in Servers |-> IF t = s THEN "start" ELSE "none"]
  BY DEF Forget
<1>2. MemoryInUse'
  BY <1>1 DEF MemoryInUse
<1>3. /\ lost' \in BOOLEAN /\ connected' \in BOOLEAN /\ s_has_credentials' \in BOOLEAN
      /\ s_portal_active' \in BOOLEAN /\ s_stop_scheduled' \in BOOLEAN
      /\ s_ignore_next_disconnect' \in BOOLEAN /\ orphan' \in BOOLEAN
      /\ aged' \in [{"attempt", "wait"} -> BOOLEAN]
  BY DEF Forget
<1>4. WifiTypeOK'
  BY <1>1, <1>3, WifiAssumption DEF Forget, WifiTypeOK
<1> QED
  BY <1>2, <1>4 DEF Forget, WifiInv

LEMMA NextInv == WifiInv /\ [Next]_vars => WifiInv'
<1> SUFFICES ASSUME WifiInv, [Next]_vars PROVE WifiInv'
  OBVIOUS
<1>1. CASE UNCHANGED vars
  BY <1>1 DEF vars, driver, flags, dns, WifiInv, WifiTypeOK, MemoryInUse
<1>2. CASE Next
  BY <1>2, DriverInv, HandlingInv, StoppingInv, CallersInv, ForgetInv, DnsTaskInv DEF Next
<1> QED
  BY <1>1, <1>2

----------------------------------------------------------------------------
(* The events of the driver. An address got is at the head of the queue    *)
(* and everything behind it a disconnect, as an attempt can only succeed   *)
(* once everything before it was handled.                                  *)
Pending == IF events # <<>> /\ Head(events) = "got_ip" THEN Len(events) - 1 ELSE Len(events)

OnlyDisconnects == \A i \in 2..Len(events) : events[i] = "disconnected"

Fresh == sta = "up" \/ (sta = "trying" /\ aged["attempt"])

Order ==
  /\ OnlyDisconnects
  /\ sta = "trying" /\ aged["attempt"] => events = <<>>
  /\ sta = "up" => events = <<"got_ip">> \/ (events = <<>> /\ connected)
  /\ sta # "up" => Pending > 0 \/ (events = <<>> /\ ~connected)
  /\ connected => s_retry_count = 0
  /\ ~s_has_credentials =>
       /\ sta = "down" /\ events = <<>> /\ stopper = "none"
       /\ \A c \in Callers : ~Busy(c)

LEMMA PendingType == WifiTypeOK => Pending \in Nat
BY DEF WifiTypeOK, Pending

LEMMA QueueKept == events' = events => Pending' = Pending /\ (OnlyDisconnects => OnlyDisconnects')
BY DEF Pending, OnlyDisconnects

LEMMA Posted ==
  ASSUME WifiTypeOK, OnlyDisconnects, events' = Append(events, "disconnected")
  PROVE  OnlyDisconnects' /\ Pending' = Pending + 1 /\ Len(events') = Len(events) + 1
<1>1. events \in Seq({"disconnected", "got_ip"}) /\ Len(events) \in Nat
  BY DEF WifiTypeOK
<1>2. Len(events') = Len(events) + 1
  BY <1>1
<1>3. OnlyDisconnects'
  BY <1>1, <1>2 DEF OnlyDisconnects
<1>4. events' # <<>> /\ Head(events') = IF events = <<>> THEN "disconnected" ELSE Head(events)
  BY <1>1, <1>2
<1>5. Pending' = Pending + 1
  BY <1>1, <1>2, <1>4 DEF Pending
<1> QED
  BY <1>2, <1>3, <1>5

LEMMA Handled ==
  ASSUME WifiTypeOK, OnlyDisconnects, Takes("disconnected")
  PROVE  /\ OnlyDisconnects'
         /\ Pending = Len(events) /\ Pending > 0
         /\ Pending' = Len(events') /\ Pending' = Pending - 1
<1>1. /\ events \in Seq({"disconnected", "got_ip"}) /\ events # <<>>
      /\ Head(events) = "disconnected" /\ events' = Tail(events)
  BY DEF WifiTypeOK, Takes
<1>2. /\ Len(events) \in Nat \ {0} /\ Len(events') = Len(events) - 1
      /\ events' \in Seq({"disconnected", "got_ip"})
      /\ \A i \in 1..Len(events') : events'[i] = events[i + 1]
  BY <1>1
<1>3. \A i \in 1..Len(events') : events'[i] = "disconnected"
  BY <1>1, <1>2 DEF OnlyDisconnects
<1>4. events' # <<>> => Head(events') = "disconnected"
  BY <1>2, <1>3
<1>5. Pending = Len(events) /\ Pending' = Len(events')
  BY <1>1, <1>4 DEF Pending
<1> QED
  BY <1>2, <1>3, <1>5 DEF OnlyDisconnects

LEMMA GotHandled ==
  ASSUME WifiTypeOK, OnlyDisconnects, Takes("got_ip")
  PROVE  OnlyDisconnects' /\ Pending = Len(events) - 1 /\ Pending' = Len(events') /\ Pending' = Pending
<1>1. /\ events \in Seq({"disconnected", "got_ip"}) /\ events # <<>>
      /\ Head(events) = "got_ip" /\ events' = Tail(events)
  BY DEF WifiTypeOK, Takes
<1>2. /\ Len(events) \in Nat \ {0} /\ Len(events') = Len(events) - 1
      /\ events' \in Seq({"disconnected", "got_ip"})
      /\ \A i \in 1..Len(events') : events'[i] = events[i + 1]
  BY <1>1
<1>3. \A i \in 1..Len(events') : events'[i] = "disconnected"
  BY <1>1, <1>2 DEF OnlyDisconnects
<1>4. events' # <<>> => Head(events') = "disconnected"
  BY <1>2, <1>3
<1>5. Pending = Len(events) - 1 /\ Pending' = Len(events')
  BY <1>1, <1>4 DEF Pending
<1> QED
  BY <1>2, <1>3, <1>5 DEF OnlyDisconnects

LEMMA OrderInit == Init => Order
<1> SUFFICES ASSUME Init PROVE Order
  OBVIOUS
<1>1. events = <<>> /\ ~connected /\ ~aged["attempt"] /\ s_retry_count = 0
  BY DEF Init
<1>2. \A c \in Callers : ~Busy(c)
  BY DEF Init, Busy
<1> QED
  BY <1>1, <1>2 DEF Init, Order, OnlyDisconnects

LEMMA DriverOrder ==
  ASSUME WifiTypeOK, Order, TimePasses \/ Joined \/ AttemptFails \/ LinkBreaks
  PROVE  Order'
<1>1. CASE TimePasses
  <2>1. events = <<>> /\ UNCHANGED <<events, sta, connected, s_retry_count, s_has_credentials, stopper>>
    BY <1>1 DEF TimePasses, driver, flags
  <2>2. \A c \in Callers : ~Busy(c)'
    BY <1>1 DEF TimePasses, Busy
  <2> QED
    BY <2>1, <2>2, QueueKept DEF Order
<1>2. CASE Joined
  <2>1. events = <<>> /\ s_has_credentials /\ UNCHANGED <<connected, s_retry_count, s_has_credentials>>
    BY <1>2 DEF Joined, flags, Order
  <2>2. events' = <<"got_ip">> /\ sta' = "up"
    BY <1>2, <2>1 DEF Joined
  <2>3. OnlyDisconnects'
    BY <2>2 DEF OnlyDisconnects
  <2> QED
    BY <2>1, <2>2, <2>3 DEF Order
<1>3. CASE AttemptFails \/ LinkBreaks
  <2>1. /\ events' = Append(events, "disconnected") /\ sta' = "down" /\ sta # "down"
        /\ UNCHANGED <<connected, s_retry_count, s_has_credentials>>
    BY <1>3 DEF AttemptFails, LinkBreaks, flags
  <2>2. Pending' > 0 /\ OnlyDisconnects'
    BY <2>1, Posted, PendingType DEF Order
  <2> QED
    BY <2>1, <2>2 DEF Order
<1> QED
  BY <1>1, <1>2, <1>3

LEMMA HandlingOrder ==
  ASSUME WifiTypeOK, Order, Handling
  PROVE  Order'
<1>1. CASE DisconnectIgnored \/ Reconnect \/ GiveUp
  <2>1. /\ Takes("disconnected") /\ connected' = FALSE
        /\ UNCHANGED <<s_has_credentials, stopper, caller>>
    BY <1>1 DEF DisconnectIgnored, Reconnect, GiveUp
  <2>2. /\ OnlyDisconnects' /\ Pending' = Len(events') /\ Pending > 0 /\ Pending = Len(events)
        /\ Pending' \in Nat
    BY <2>1, Handled, PendingType DEF Order
  <2>3. events # <<>>
    BY <2>2
  <2>4. sta # "up" /\ ~(sta = "trying" /\ aged["attempt"]) /\ s_has_credentials
    BY <2>1, <2>3 DEF Order, Takes
  <2>5. sta' # "up" /\ ~(sta' = "trying" /\ aged'["attempt"])
    BY <1>1, <2>4 DEF DisconnectIgnored, Reconnect, GiveUp, Begins, WifiTypeOK
  <2>6. Pending' > 0 \/ events' = <<>>
    BY <2>1, <2>2 DEF Takes, WifiTypeOK
  <2> QED
    BY <2>1, <2>2, <2>4, <2>5, <2>6 DEF Order
<1>2. CASE HandlerOpens
  <2>1. UNCHANGED <<events, sta, aged, connected, s_retry_count, s_has_credentials, stopper, caller>>
    BY <1>2 DEF HandlerOpens, AccessPointOn, PortalOn, driver, flags
  <2> QED
    BY <2>1, QueueKept DEF Order, Busy
<1>3. CASE GotIp
  <2>1. /\ Takes("got_ip") /\ connected' /\ s_retry_count' = 0
        /\ UNCHANGED <<sta, s_has_credentials, caller>>
    BY <1>3 DEF GotIp
  <2>2. /\ OnlyDisconnects' /\ Pending = Len(events) - 1
        /\ Pending' = Len(events') /\ Pending' = Pending
    BY <2>1, GotHandled DEF Order
  <2>3. sta # "up" => Pending > 0
    BY <2>1 DEF Order, Takes
  <2>4. sta = "up" => events' = <<>>
    <3>1. events # <<>> /\ events' = Tail(events)
      BY <2>1 DEF Takes
    <3>2. sta = "up" => events = <<"got_ip">>
      BY <3>1 DEF Order
    <3>3. events \in Seq({"disconnected", "got_ip"}) /\ Len(<<"got_ip">>) = 1
      BY DEF WifiTypeOK
    <3>4. events' \in Seq({"disconnected", "got_ip"}) /\ (sta = "up" => Len(events') = 0)
      BY <3>1, <3>2, <3>3
    <3>5. \A e \in Seq({"disconnected", "got_ip"}) : Len(e) = 0 => e = <<>>
      BY EmptySeq
    <3> QED
      BY <3>4, <3>5
  <2>5. aged'["attempt"] = aged["attempt"]
    BY <1>3 DEF GotIp, Begins, WifiTypeOK
  <2>6. ~(sta' = "trying" /\ aged'["attempt"])
    BY <2>1, <2>5 DEF Order, Takes
  <2>7. s_has_credentials
    BY <2>1 DEF Order, Takes
  <2> QED
    BY <2>1, <2>2, <2>3, <2>4, <2>6, <2>7 DEF Order
<1> QED
  BY <1>1, <1>2, <1>3 DEF Handling

LEMMA StoppingOrder ==
  ASSUME WifiTypeOK, Order, Stopping
  PROVE  Order'
<1>1. /\ stopper # "none"
      /\ UNCHANGED <<events, sta, aged, connected, s_retry_count, s_has_credentials>>
  BY DEF Stopping, StopCheck, StopDns, DnsStopped, DnsDeleted, StopAccessPoint, StopFlag, StopEnds,
     StopperGoes, driver, flags
<1> QED
  BY <1>1, QueueKept DEF Order

LEMMA CallingOrder ==
  ASSUME WifiTypeOK, Order, NEW c \in Callers, Connect(c) \/ Calling(c)
  PROVE  Order'
<1>1. CASE Connect(c)
  <2>1. /\ s_has_credentials' /\ s_retry_count' = 0
        /\ UNCHANGED <<events, sta, aged, connected, stopper>>
    BY <1>1 DEF Connect, driver
  <2> QED
    BY <2>1, QueueKept DEF Order
<1>2. CASE CallerOpens(c) \/ SetCredentials(c) \/ CheckConnected(c) \/ AttemptRefused(c)
  <2>1. /\ Busy(c)
        /\ UNCHANGED <<events, sta, aged, connected, s_retry_count, s_has_credentials>>
    BY <1>2 DEF CallerOpens, SetCredentials, CheckConnected, AttemptRefused, AccessPointOn, PortalOn,
       driver, flags, CallerGoes, Busy
  <2> QED
    BY <2>1, QueueKept DEF Order
<1>3. CASE JoinReported(c)
  <2>1. UNCHANGED <<events, sta, aged, connected, s_retry_count, s_has_credentials, stopper>>
    BY <1>3 DEF JoinReported, driver, flags
  <2>2. \A d \in Callers : ~Busy(d) => ~Busy(d)'
    BY <1>3 DEF JoinReported, CallerGoes, Busy, WifiTypeOK
  <2> QED
    BY <2>1, <2>2, QueueKept DEF Order
<1>4. CASE Disconnect(c)
  <2>1. /\ Busy(c) /\ sta' = "down"
        /\ UNCHANGED <<aged, connected, s_retry_count, s_has_credentials>>
    BY <1>4 DEF Disconnect, CallerGoes, Busy
  <2>2. CASE sta = "down"
    <3>1. events' = events
      BY <1>4, <2>2 DEF Disconnect
    <3> QED
      BY <2>1, <2>2, <3>1, QueueKept DEF Order
  <2>3. CASE sta # "down"
    <3>1. events' = Append(events, "disconnected")
      BY <1>4, <2>3 DEF Disconnect
    <3>2. Pending' > 0 /\ OnlyDisconnects'
      BY <3>1, Posted, PendingType DEF Order
    <3> QED
      BY <2>1, <3>2 DEF Order
  <2> QED
    BY <2>2, <2>3
<1>5. CASE StartAttempt(c)
  <2>1. /\ Busy(c) /\ sta = "down" /\ sta' = "trying" /\ ~aged'["attempt"]
        /\ UNCHANGED <<events, connected, s_retry_count, s_has_credentials>>
    BY <1>5 DEF StartAttempt, CallerGoes, Busy, Begins, flags, WifiTypeOK
  <2> QED
    BY <2>1, QueueKept DEF Order
<1> QED
  BY <1>1, <1>2, <1>3, <1>4, <1>5 DEF Calling

(* A device that starts again is as after Init.                            *)
LEMMA ForgetOrder ==
  ASSUME NEW c \in Callers, Forget(c)
  PROVE  Order'
<1>1. events' = <<>> /\ ~connected' /\ s_retry_count' = 0 /\ sta' = "down" /\ stopper' = "none"
  BY DEF Forget
<1>2. \A d \in Callers : ~Busy(d)'
  BY DEF Forget, Busy
<1> QED
  BY <1>1, <1>2 DEF Order, OnlyDisconnects

LEMMA OrderStep == WifiInv /\ Order /\ [Next]_vars => Order'
<1> SUFFICES ASSUME WifiTypeOK, Order, [Next]_vars PROVE Order'
  BY DEF WifiInv
<1>1. CASE UNCHANGED vars \/ \E s \in Servers : DnsTask(s)
  <2>1. UNCHANGED <<events, sta, aged, connected, s_retry_count, s_has_credentials, stopper, caller>>
    BY <1>1 DEF vars, driver, flags, DnsTask
  <2> QED
    BY <2>1, QueueKept DEF Order, Busy
<1> QED
  BY <1>1, DriverOrder, HandlingOrder, StoppingOrder, CallingOrder, ForgetOrder DEF Next

----------------------------------------------------------------------------
(* The disconnect that wifi_manager_connect asks for. Whoever raised the   *)
(* flag is still to connect as long as the station is down, and if there   *)
(* is no event to lower it, there is somebody else to connect, who will be *)
(* refused.                                                                *)
AtConnect == {c \in Callers : caller[c] = "connect"}
AtDisconnect == {c \in Callers : caller[c] = "disconnect"}

Ignoring ==
  /\ s_ignore_next_disconnect => ~Fresh
  /\ s_ignore_next_disconnect /\ (sta = "down" \/ Pending = 0) => AtConnect # {}
  /\ s_ignore_next_disconnect /\ sta = "down" /\ Pending = 0 =>
       \E c, d \in AtConnect : c # d

(* Whoever is about to disconnect an established link still finds it, or   *)
(* its end is not yet handled, or an attempt has begun.                    *)
StillLinked ==
  \A c \in AtDisconnect :
    /\ Fresh => sta = "up" /\ s_retry_count = 0
    /\ sta = "down" /\ AtConnect = {} => Pending > 0 /\ s_retry_count = 0

Linked == Ignoring /\ StillLinked

LEMMA LinkedInit == Init => Linked
BY DEF Init, Linked, Ignoring, StillLinked, AtDisconnect

(* Steps of the portal leave the link alone.                               *)
LEMMA LinkedKept ==
  ASSUME Linked, UNCHANGED <<events, sta, aged, s_retry_count, s_ignore_next_disconnect, caller>>
  PROVE  Linked'
<1>1. Pending' = Pending /\ Fresh' = Fresh /\ AtConnect' = AtConnect /\ AtDisconnect' = AtDisconnect
  BY QueueKept DEF Fresh, AtConnect, AtDisconnect
<1> QED
  BY <1>1 DEF Linked, Ignoring, StillLinked

LEMMA DriverLinked ==
  ASSUME WifiTypeOK, Order, Linked, TimePasses \/ Joined \/ AttemptFails \/ LinkBreaks
  PROVE  Linked'
<1>1. CASE TimePasses
  <2>1. AtConnect = {} /\ AtDisconnect' = {} /\ Pending = 0
    BY <1>1 DEF TimePasses, AtConnect, AtDisconnect, Busy, Pending
  <2>2. ~s_ignore_next_disconnect'
    BY <1>1, <2>1 DEF TimePasses, Linked, Ignoring, flags
  <2> QED
    BY <2>1, <2>2 DEF Linked, Ignoring, StillLinked
<1>2. CASE Joined \/ AttemptFails
  <2>1. Fresh /\ sta = "trying"
    BY <1>2 DEF Joined, AttemptFails, Fresh
  <2>2. ~s_ignore_next_disconnect /\ AtDisconnect = {}
    BY <2>1 DEF Linked, Ignoring, StillLinked
  <2>3. ~s_ignore_next_disconnect' /\ AtDisconnect' = {}
    BY <1>2, <2>2 DEF Joined, AttemptFails, flags, AtDisconnect
  <2> QED
    BY <2>3 DEF Linked, Ignoring, StillLinked
<1>3. CASE LinkBreaks
  <2>1. Fresh /\ sta = "up" /\ sta' = "down" /\ UNCHANGED <<s_retry_count, s_ignore_next_disconnect, caller>>
    BY <1>3 DEF LinkBreaks, Fresh, flags
  <2>2. ~s_ignore_next_disconnect
    BY <2>1 DEF Linked, Ignoring
  <2>3. Pending' > 0
    BY <1>3, Posted, PendingType DEF LinkBreaks, Order
  <2>4. AtDisconnect' = AtDisconnect /\ ~Fresh'
    BY <2>1 DEF AtDisconnect, Fresh
  <2>5. StillLinked'
    BY <2>1, <2>3, <2>4 DEF Linked, StillLinked
  <2> QED
    BY <2>1, <2>2, <2>5 DEF Linked, Ignoring
<1> QED
  BY <1>1, <1>2, <1>3

LEMMA HandlingLinked ==
  ASSUME WifiTypeOK, Order, Linked, Handling
  PROVE  Linked'
<1>1. CASE DisconnectIgnored \/ Reconnect \/ GiveUp
  <2>1. /\ Takes("disconnected") /\ ~s_ignore_next_disconnect'
        /\ UNCHANGED <<s_has_credentials, caller>>
    BY <1>1 DEF DisconnectIgnored, Reconnect, GiveUp
  <2>2. ~Fresh
    <3>1. events # <<>> /\ Head(events) # "got_ip"
      BY <2>1 DEF Takes
    <3> QED
      BY <3>1 DEF Order, Fresh
  <2>3. ~Fresh'
    BY <1>1, <2>2 DEF DisconnectIgnored, Reconnect, GiveUp, Begins, Fresh, WifiTypeOK
  <2>4. AtConnect' = AtConnect /\ AtDisconnect' = AtDisconnect
    BY <2>1 DEF AtConnect, AtDisconnect
  <2>5. AtDisconnect' # {} => ~(sta' = "down" /\ AtConnect' = {})
    <3> SUFFICES ASSUME NEW c \in AtDisconnect, sta' = "down", AtConnect = {} PROVE FALSE
      BY <2>4
    <3>1. CASE DisconnectIgnored
      BY <3>1 DEF DisconnectIgnored, Linked, Ignoring
    <3>2. CASE Reconnect
      BY <3>2 DEF Reconnect, WifiTypeOK
    <3>3. CASE GiveUp
      <4>1. sta = "down" /\ ~Retried
        BY <3>3 DEF GiveUp
      <4>2. s_retry_count = 0
        BY <4>1 DEF Linked, StillLinked
      <4>3. s_has_credentials
        BY DEF Order, AtDisconnect, Busy
      <4> QED
        BY <4>1, <4>2, <4>3, WifiAssumption DEF Retried
    <3> QED
      BY <1>1, <3>1, <3>2, <3>3
  <2> QED
    BY <2>1, <2>3, <2>5 DEF Linked, Ignoring, StillLinked
<1>2. CASE HandlerOpens
  BY <1>2, LinkedKept DEF HandlerOpens, AccessPointOn, PortalOn, driver, flags
<1>3. CASE GotIp
  <2>1. /\ Takes("got_ip") /\ s_retry_count' = 0
        /\ UNCHANGED <<sta, s_ignore_next_disconnect, caller>>
        /\ aged'["attempt"] = aged["attempt"]
    BY <1>3 DEF GotIp, Begins, WifiTypeOK
  <2>2. Pending' = Pending
    BY <2>1, GotHandled DEF Order
  <2>3. Fresh' = Fresh /\ AtConnect' = AtConnect /\ AtDisconnect' = AtDisconnect
    BY <2>1 DEF Fresh, AtConnect, AtDisconnect
  <2> QED
    BY <2>1, <2>2, <2>3 DEF Linked, Ignoring, StillLinked
<1> QED
  BY <1>1, <1>2, <1>3 DEF Handling

LEMMA CallingLinked ==
  ASSUME WifiTypeOK, Order, Linked, NEW c \in Callers, Connect(c) \/ Calling(c)
  PROVE  Linked'
<1>1. CASE Connect(c) \/ CallerOpens(c) \/ SetCredentials(c) \/ JoinReported(c)
  <2>1. /\ UNCHANGED <<events, sta, aged, s_ignore_next_disconnect>>
        /\ s_retry_count' \in {0, s_retry_count}
    BY <1>1 DEF Connect, CallerOpens, SetCredentials, JoinReported, AccessPointOn, PortalOn,
       driver, flags
  <2>2. AtConnect' = AtConnect /\ AtDisconnect' = AtDisconnect
    BY <1>1 DEF Connect, CallerOpens, SetCredentials, JoinReported, CallerGoes, AtConnect,
       AtDisconnect, WifiTypeOK
  <2>3. Pending' = Pending /\ Fresh' = Fresh
    BY <2>1, QueueKept DEF Fresh
  <2> QED
    BY <2>1, <2>2, <2>3 DEF Linked, Ignoring, StillLinked
<1>2. CASE CheckConnected(c)
  <2>1. UNCHANGED <<events, sta, aged, connected, s_retry_count, s_ignore_next_disconnect>>
    BY <1>2 DEF CheckConnected, driver, flags
  <2>2. Pending' = Pending /\ Fresh' = Fresh
    BY <2>1, QueueKept DEF Fresh
  <2>3. AtConnect \subseteq AtConnect'
    BY <1>2 DEF CheckConnected, CallerGoes, AtConnect, WifiTypeOK
  <2>4. AtDisconnect' = IF connected THEN AtDisconnect \cup {c} ELSE AtDisconnect
    BY <1>2 DEF CheckConnected, CallerGoes, AtDisconnect, WifiTypeOK
  <2>5. connected => /\ Fresh => sta = "up" /\ s_retry_count = 0
                     /\ sta = "down" => Pending > 0 /\ s_retry_count = 0
    <3>1. events = <<>> => Pending = 0
      BY DEF Pending
    <3> QED
      BY <3>1 DEF Order, Fresh
  <2>6. StillLinked'
    BY <2>1, <2>2, <2>3, <2>4, <2>5 DEF Linked, StillLinked
  <2> QED
    BY <2>1, <2>2, <2>3, <2>6 DEF Linked, Ignoring
<1>3. CASE Disconnect(c)
  <2>1. c \in AtDisconnect /\ sta' = "down"
    BY <1>3 DEF Disconnect, CallerGoes, AtDisconnect
  <2>2. AtConnect' = AtConnect \cup {c} /\ c \notin AtConnect
    BY <1>3 DEF Disconnect, CallerGoes, AtConnect, WifiTypeOK
  <2>3. Pending' = 0 => \E b, d \in AtConnect' : b # d
    <3>1. CASE sta = "down"
      <4>1. Pending' = Pending
        BY <1>3, <3>1, QueueKept DEF Disconnect
      <4>2. Pending = 0 => AtConnect # {}
        BY <2>1, <3>1 DEF Linked, StillLinked
      <4> QED
        BY <2>2, <4>1, <4>2
    <3>2. CASE sta # "down"
      <4>1. Pending' = Pending + 1
        BY <1>3, <3>2, Posted DEF Disconnect, Order
      <4> QED
        BY <4>1, PendingType
    <3> QED
      BY <3>1, <3>2
  <2>4. ~Fresh' /\ AtConnect' # {}
    BY <2>1, <2>2 DEF Fresh
  <2> QED
    BY <2>1, <2>3, <2>4 DEF Linked, Ignoring, StillLinked
<1>4. CASE StartAttempt(c)
  <2>1. /\ sta = "down" /\ sta' = "trying" /\ ~aged'["attempt"]
        /\ UNCHANGED <<events, s_ignore_next_disconnect>>
    BY <1>4 DEF StartAttempt, Begins, flags, WifiTypeOK
  <2>2. AtConnect' = AtConnect \ {c}
    BY <1>4 DEF StartAttempt, CallerGoes, AtConnect, WifiTypeOK
  <2>3. ~Fresh' /\ Pending' = Pending
    BY <2>1, QueueKept DEF Fresh
  <2> QED
    BY <2>1, <2>2, <2>3 DEF Linked, Ignoring, StillLinked
<1>5. CASE AttemptRefused(c)
  <2>1. /\ ~s_ignore_next_disconnect' /\ sta # "down"
        /\ UNCHANGED <<sta, aged, s_retry_count>>
    BY <1>5 DEF AttemptRefused, driver
  <2>2. AtDisconnect' = AtDisconnect /\ Fresh' = Fresh
    BY <1>5, <2>1 DEF AttemptRefused, CallerGoes, AtDisconnect, Fresh, WifiTypeOK
  <2> QED
    BY <2>1, <2>2 DEF Linked, Ignoring, StillLinked
<1> QED
  BY <1>1, <1>2, <1>3, <1>4, <1>5 DEF Calling

LEMMA LinkedStep == WifiInv /\ Order /\ Linked /\ [Next]_vars => Linked'
<1> SUFFICES ASSUME WifiTypeOK, Order, Linked, [Next]_vars PROVE Linked'
  BY DEF WifiInv
<1>1. CASE UNCHANGED vars \/ \E s \in Servers : DnsTask(s)
  BY <1>1, LinkedKept DEF vars, driver, flags, DnsTask
<1>2. CASE Stopping
  BY <1>2, LinkedKept DEF Stopping, StopCheck, StopDns, DnsStopped, DnsDeleted, StopAccessPoint,
     StopFlag, StopEnds, driver, flags
<1>3. ASSUME NEW c \in Callers, Forget(c) PROVE Linked'
  <2>1. ~s_ignore_next_disconnect' /\ AtDisconnect' = {}
    BY <1>3 DEF Forget, AtDisconnect
  <2> QED
    BY <2>1 DEF Linked, Ignoring, StillLinked
<1> QED
  BY <1>1, <1>2, <1>3, DriverLinked, HandlingLinked, CallingLinked DEF Next

LEMMA LinkedIgnoresNothing == WifiInv /\ Order /\ Linked => NothingIgnored
<1> SUFFICES ASSUME WifiTypeOK, Order, Linked, \A c \in Callers : ~Busy(c),
                    \A i \in 1..Len(events) : events[i] # "disconnected"
             PROVE  ~s_ignore_next_disconnect
  BY DEF WifiInv, NothingIgnored
<1>1. AtConnect = {}
  BY DEF AtConnect, Busy
<1>2. events \in Seq({"disconnected", "got_ip"}) /\ Len(events) \in Nat
  BY DEF WifiTypeOK
<1>3. Len(events) <= 1 /\ (events # <<>> => Head(events) = "got_ip")
  BY <1>2 DEF Order, OnlyDisconnects
<1>4. Pending = 0
  <2>1. CASE events = <<>>
    BY <2>1 DEF Pending
  <2>2. CASE events # <<>>
    <3>1. Len(events) # 0
      BY <1>2, <2>2, EmptySeq
    <3>2. Len(events) = 1
      BY <1>2, <1>3, <3>1
    <3> QED
      BY <1>3, <2>2, <3>2 DEF Pending
  <2> QED
    BY <2>1, <2>2
<1> QED
  BY <1>1, <1>4 DEF Linked, Ignoring

----------------------------------------------------------------------------
(* The portal. A task that opens it runs before the stop task closes it.   *)
Opens == handler \in {"open", "dns"} \/ \E c \in Callers : caller[c] \in {"open", "dns"}

HalfOpen == handler = "dns" \/ \E c \in Callers : caller[c] = "dns"

Portal ==
  /\ stopper # "none" => s_stop_scheduled
  /\ stopper \in {"wait", "dns", "await", "mode", "flag"} => s_portal_active
  /\ Opens => stopper \in {"none", "end"} \/ (stopper = "wait" /\ ~aged["wait"])
  /\ handler # "idle" => ~connected
  /\ HalfOpen => mode = "apsta"
  /\ s_portal_active /\ stopper # "flag" => mode = "apsta"

LEMMA PortalInit == Init => Portal
<1> SUFFICES ASSUME Init PROVE Portal
  OBVIOUS
<1>1. ~connected /\ stopper = "none" /\ ~HalfOpen
  BY DEF Init, HalfOpen
<1>2. s_portal_active => mode = "apsta"
  BY DEF Init
<1> QED
  BY <1>1, <1>2 DEF Portal

(* Nobody opens the portal that did not before, and the stop task rests.   *)
LEMMA PortalKept ==
  ASSUME Portal, UNCHANGED <<stopper, s_stop_scheduled, s_portal_active>>,
         aged'["wait"] = aged["wait"], Opens' => Opens, HalfOpen' => HalfOpen \/ mode' = "apsta",
         connected' => connected, handler' # "idle" => handler # "idle",
         mode' \in {mode, "apsta"}
  PROVE  Portal'
BY DEF Portal

LEMMA DriverPortal ==
  ASSUME WifiTypeOK, Portal, TimePasses \/ Joined \/ AttemptFails \/ LinkBreaks
  PROVE  Portal'
<1>1. CASE TimePasses
  <2>1. /\ handler' = "idle" /\ ~Opens' /\ ~HalfOpen'
        /\ UNCHANGED <<stopper, s_stop_scheduled, s_portal_active, mode>>
    BY <1>1 DEF TimePasses, driver, flags, Busy, Opens, HalfOpen
  <2> QED
    BY <2>1 DEF Portal
<1>2. CASE Joined \/ AttemptFails \/ LinkBreaks
  <2>1. UNCHANGED <<stopper, s_stop_scheduled, s_portal_active, aged, handler, caller, connected, mode>>
    BY <1>2 DEF Joined, AttemptFails, LinkBreaks, flags
  <2> QED
    BY <2>1, PortalKept DEF Opens, HalfOpen
<1> QED
  BY <1>1, <1>2

LEMMA HandlingPortal ==
  ASSUME WifiTypeOK, Portal, Handling
  PROVE  Portal'
<1>1. CASE DisconnectIgnored \/ Reconnect
  <2>1. /\ UNCHANGED <<stopper, s_stop_scheduled, s_portal_active, handler, caller, mode>>
        /\ ~connected' /\ aged'["wait"] = aged["wait"]
    BY <1>1 DEF DisconnectIgnored, Reconnect, Begins, WifiTypeOK
  <2> QED
    BY <2>1, PortalKept DEF Opens, HalfOpen
<1>2. CASE GiveUp
  <2>1. /\ UNCHANGED <<stopper, s_stop_scheduled, s_portal_active, aged, caller, mode>>
        /\ ~connected' /\ handler = "idle"
        /\ handler' = IF s_portal_active THEN "idle" ELSE "open"
    BY <1>2 DEF GiveUp, Takes
  <2>2. CASE s_portal_active
    BY <2>1, <2>2, PortalKept DEF Opens, HalfOpen
  <2>3. CASE ~s_portal_active
    <3>1. stopper \in {"none", "end"}
      BY <2>3 DEF Portal, WifiTypeOK
    <3>2. HalfOpen' => HalfOpen
      BY <2>1, <2>3 DEF HalfOpen
    <3> QED
      BY <2>1, <3>1, <3>2 DEF Portal
  <2> QED
    BY <2>2, <2>3
<1>3. CASE HandlerOpens
  <2>1. CASE handler = "open"
    <3>1. /\ UNCHANGED <<stopper, s_stop_scheduled, s_portal_active, aged, connected, caller>>
          /\ handler' = "dns" /\ mode' = "apsta"
      BY <1>3, <2>1 DEF HandlerOpens, AccessPointOn, flags
    <3> QED
      BY <2>1, <3>1, PortalKept DEF Opens
  <2>2. CASE handler = "dns"
    <3>1. /\ UNCHANGED <<stopper, s_stop_scheduled, aged, connected, caller, mode>>
          /\ handler' = "idle" /\ s_portal_active'
      BY <1>3, <2>2 DEF HandlerOpens, PortalOn, driver
    <3>2. mode = "apsta"
      BY <2>2 DEF Portal, HalfOpen
    <3>3. Opens' => Opens
      BY <2>2, <3>1 DEF Opens
    <3> QED
      BY <3>1, <3>2, <3>3 DEF Portal
  <2> QED
    BY <1>3, <2>1, <2>2 DEF HandlerOpens
<1>4. CASE GotIp
  <2>1. /\ handler = "idle" /\ UNCHANGED <<handler, caller, mode, s_portal_active>>
        /\ Opens' = Opens /\ HalfOpen' = HalfOpen
    BY <1>4 DEF GotIp, Takes, Opens, HalfOpen
  <2>2. CASE UNCHANGED <<stopper, aged>> /\ (s_stop_scheduled => s_stop_scheduled')
    BY <2>1, <2>2 DEF Portal
  <2>3. CASE s_portal_active /\ ~s_stop_scheduled /\ s_stop_scheduled' /\ stopper' = "wait" /\ Begins("wait")
    <3>1. ~aged'["wait"] /\ stopper = "none"
      BY <2>3 DEF Begins, WifiTypeOK, Portal
    <3> QED
      BY <2>1, <2>3, <3>1 DEF Portal
  <2> QED
    BY <1>4, <2>2, <2>3 DEF GotIp
<1> QED
  BY <1>1, <1>2, <1>3, <1>4 DEF Handling

LEMMA StoppingPortal ==
  ASSUME WifiTypeOK, Portal, Stopping
  PROVE  Portal'
<1>1. UNCHANGED <<aged, handler, caller, connected>> /\ Opens' = Opens /\ HalfOpen' = HalfOpen
  BY DEF Stopping, StopCheck, StopDns, DnsStopped, DnsDeleted, StopAccessPoint, StopFlag, StopEnds,
     Opens, HalfOpen
<1>2. HalfOpen => Opens
  BY DEF HalfOpen, Opens
<1>3. CASE StopCheck
  BY <1>1, <1>2, <1>3 DEF StopCheck, StopperGoes, flags, Portal
<1>4. CASE StopDns \/ DnsStopped \/ DnsDeleted
  BY <1>1, <1>2, <1>4 DEF StopDns, DnsStopped, DnsDeleted, StopperGoes, driver, flags, Portal
<1>5. CASE StopAccessPoint
  BY <1>1, <1>2, <1>5 DEF StopAccessPoint, StopperGoes, flags, Portal
<1>6. CASE StopFlag
  <2>1. /\ stopper = "flag" /\ stopper' = "end" /\ ~s_portal_active'
        /\ UNCHANGED <<mode, s_stop_scheduled>>
    BY <1>6 DEF StopFlag, StopperGoes, driver
  <2> QED
    BY <1>1, <1>2, <2>1 DEF Portal
<1>7. CASE StopEnds
  BY <1>1, <1>2, <1>7 DEF StopEnds, StopperGoes, driver, Portal
<1> QED
  BY <1>3, <1>4, <1>5, <1>6, <1>7 DEF Stopping

LEMMA CallingPortal ==
  ASSUME WifiTypeOK, Portal, NEW c \in Callers, Connect(c) \/ Calling(c)
  PROVE  Portal'
<1>1. CASE Connect(c)
  <2>1. /\ UNCHANGED <<stopper, s_stop_scheduled, s_portal_active, aged, handler, connected, mode>>
        /\ caller' = [caller EXCEPT ![c] = IF s_portal_active THEN "mode" ELSE "open"]
    BY <1>1 DEF Connect, CallerGoes, driver
  <2>2. HalfOpen' => HalfOpen
    BY <2>1 DEF HalfOpen, WifiTypeOK
  <2>3. CASE s_portal_active
    <3>1. Opens' => Opens
      BY <2>1, <2>3 DEF Opens, WifiTypeOK
    <3> QED
      BY <2>1, <2>2, <3>1, PortalKept
  <2>4. CASE ~s_portal_active
    <3>1. stopper \in {"none", "end"}
      BY <2>4 DEF Portal, WifiTypeOK
    <3> QED
      BY <2>1, <2>2, <3>1 DEF Portal
  <2> QED
    BY <2>3, <2>4
<1>2. CASE CallerOpens(c)
  <2>1. /\ UNCHANGED <<stopper, s_stop_scheduled, aged, handler, connected>>
        /\ caller[c] \in {"open", "dns"}
    BY <1>2 DEF CallerOpens, PortalOn, CallerGoes, flags
  <2>2. Opens
    BY <2>1 DEF Opens
  <2>3. CASE caller[c] = "open"
    BY <1>2, <2>1, <2>2, <2>3, PortalKept DEF CallerOpens, AccessPointOn, CallerGoes, flags
  <2>4. CASE caller[c] = "dns"
    <3>1. mode' = mode /\ s_portal_active'
      BY <1>2, <2>4 DEF CallerOpens, PortalOn, CallerGoes, driver
    <3>2. mode = "apsta"
      BY <2>4 DEF Portal, HalfOpen
    <3> QED
      BY <2>1, <2>2, <3>1, <3>2 DEF Portal
  <2> QED
    BY <2>1, <2>3, <2>4
<1>3. CASE SetCredentials(c) \/ CheckConnected(c) \/ Disconnect(c) \/ StartAttempt(c)
            \/ AttemptRefused(c) \/ JoinReported(c)
  <2>1. /\ UNCHANGED <<stopper, s_stop_scheduled, s_portal_active, handler, connected>>
        /\ aged'["wait"] = aged["wait"] /\ mode' \in {mode, "apsta"}
    BY <1>3 DEF SetCredentials, CheckConnected, Disconnect, StartAttempt, AttemptRefused, JoinReported,
       AccessPointOn, Begins, driver, flags, WifiTypeOK
  <2>2. \A d \in Callers : caller'[d] \in {"open", "dns"} => caller'[d] = caller[d]
    BY <1>3 DEF SetCredentials, CheckConnected, Disconnect, StartAttempt, AttemptRefused, JoinReported,
       CallerGoes, WifiTypeOK
  <2> QED
    BY <2>1, <2>2, PortalKept DEF Opens, HalfOpen
<1> QED
  BY <1>1, <1>2, <1>3 DEF Calling

LEMMA PortalStep == WifiInv /\ Portal /\ [Next]_vars => Portal'
<1> SUFFICES ASSUME WifiTypeOK, Portal, [Next]_vars PROVE Portal'
  BY DEF WifiInv
<1>1. CASE UNCHANGED vars \/ \E s \in Servers : DnsTask(s)
  <2>1. UNCHANGED <<stopper, s_stop_scheduled, s_portal_active, aged, handler, connected, mode, caller>>
    BY <1>1 DEF vars, driver, flags, DnsTask
  <2> QED
    BY <2>1, PortalKept DEF Opens, HalfOpen
<1>2. ASSUME NEW c \in Callers, Forget(c) PROVE Portal'
  <2>1. ~connected' /\ stopper' = "none" /\ ~HalfOpen' /\ mode' = "apsta" /\ handler' = "idle"
    BY <1>2 DEF Forget, HalfOpen
  <2> QED
    BY <2>1 DEF Portal
<1> QED
  BY <1>1, <1>2, DriverPortal, HandlingPortal, StoppingPortal, CallingPortal DEF Next

----------------------------------------------------------------------------
(* The DNS servers, where sockets do not fail. A task serves until it is   *)
(* told to stop, and the one told is the one waited for; the server opened *)
(* last serves or has found the port taken.                                *)
Tasks ==
  \A s \in Servers :
    /\ port = s <=> task[s] \in {"serve", "close"}
    /\ task[s] \in {"close", "end"} => s \notin running
    /\ task[s] # "none" /\ s \notin running => stopper = "await" /\ server = s

Served ==
  /\ Tasks
  /\ stopper = "await" => server \in heap
  /\ s_dns # Null => s_dns \in heap
  /\ s_dns # Null =>
       task[s_dns] \in {"start", "serve"} \/ port # Null \/ orphan \/ stopper = "await"

LEMMA ServedInit == Init => Served
<1> SUFFICES ASSUME Init PROVE Served
  OBVIOUS
<1>1. s_dns \in Servers \cup {Null}
  BY DEF Init
<1>2. Tasks
  BY <1>1, WifiAssumption DEF Init, Tasks
<1> QED
  BY <1>1, <1>2, WifiAssumption DEF Init, Served

(* Steps that leave the servers and the stop task's wait for one alone.    *)
LEMMA ServedKept ==
  ASSUME Served, UNCHANGED <<dns, server>>, (stopper' = "await") = (stopper = "await")
  PROVE  Served'
BY DEF Served, Tasks, dns

LEMMA ServedStart ==
  ASSUME WifiInv, Served, dns_server_start, UNCHANGED <<stopper, server>>
  PROVE  Served'
<1> USE DEF WifiInv, WifiTypeOK
<1>1. ASSUME NEW s \in Servers \ heap,
             /\ s_dns' = s
             /\ heap' = heap \cup {s} /\ running' = running \cup {s}
             /\ task' = [task EXCEPT ![s] = "start"]
             /\ UNCHANGED <<port, orphan>>
      PROVE  Served'
  <2>1. task[s] = "none" /\ s # Null
    BY <1>1, WifiAssumption DEF MemoryInUse
  <2>2. port # s
    BY <1>1, <2>1 DEF Served, Tasks
  <2>3. Tasks'
    BY <1>1, <2>1, <2>2 DEF Served, Tasks
  <2> QED
    BY <1>1, <2>3 DEF Served
<1>2. CASE s_dns' = Null /\ UNCHANGED <<heap, running, task, port, orphan>>
  BY <1>2 DEF Served, Tasks
<1> QED
  BY <1>1, <1>2 DEF dns_server_start

LEMMA ServedTask ==
  ASSUME "socket" \notin Faults, WifiInv, Served, NEW s \in Servers, DnsTask(s)
  PROVE  Served'
<1> USE WifiAssumption DEF WifiInv, WifiTypeOK
<1>1. UNCHANGED <<s_dns, heap, orphan, stopper, server>>
  BY DEF DnsTask, DnsBinds, DnsBindFails, DnsLeavesLoop, DnsCloses, DnsEnds
<1>2. CASE DnsBinds(s)
  <2>1. Tasks'
    BY <1>1, <1>2 DEF DnsBinds, TaskGoes, Served, Tasks
  <2> QED
    BY <1>1, <1>2, <2>1 DEF DnsBinds, Served
<1>3. CASE DnsBindFails(s)
  <2>1. Tasks'
    BY <1>1, <1>3 DEF DnsBindFails, TaskGoes, Served, Tasks
  <2> QED
    BY <1>1, <1>3, <2>1 DEF DnsBindFails, TaskGoes, Served
<1>4. CASE DnsLeavesLoop(s) \/ DnsCloses(s) \/ DnsEnds(s)
  <2>1. stopper = "await" /\ server = s
    BY <1>4 DEF DnsLeavesLoop, DnsCloses, DnsEnds, TaskGoes, Served, Tasks
  <2>2. CASE DnsLeavesLoop(s)
    <3>1. Tasks'
      BY <1>1, <2>1, <2>2 DEF DnsLeavesLoop, TaskGoes, Served, Tasks
    <3> QED
      BY <1>1, <2>1, <3>1 DEF Served
  <2>3. CASE DnsCloses(s)
    <3>1. Tasks'
      BY <1>1, <2>1, <2>3 DEF DnsCloses, TaskGoes, Served, Tasks
    <3> QED
      BY <1>1, <2>1, <3>1 DEF Served
  <2>4. CASE DnsEnds(s)
    <3>1. Tasks'
      BY <1>1, <2>1, <2>4 DEF DnsEnds, TaskGoes, Served, Tasks
    <3> QED
      BY <1>1, <2>1, <3>1 DEF Served
  <2> QED
    BY <1>4, <2>2, <2>3, <2>4
<1> QED
  BY <1>2, <1>3, <1>4 DEF DnsTask

LEMMA ServedStopping ==
  ASSUME WifiInv, Served, Stopping
  PROVE  Served'
<1> USE WifiAssumption DEF WifiInv, WifiTypeOK
<1>1. CASE StopCheck \/ StopAccessPoint \/ StopFlag \/ StopEnds
  BY <1>1, ServedKept DEF StopCheck, StopAccessPoint, StopFlag, StopEnds, StopperGoes
<1>2. CASE StopDns
  <2>1. Tasks'
    BY <1>2 DEF StopDns, StopperGoes, Served, Tasks
  <2> QED
    BY <1>2, <2>1 DEF StopDns, StopperGoes, Served
<1>3. CASE DnsStopped
  <2>1. Tasks'
    BY <1>3 DEF DnsStopped, Freed, StopperGoes, Served, Tasks
  <2> QED
    BY <1>3, <2>1 DEF DnsStopped, Freed, StopperGoes, Served
<1>4. CASE DnsDeleted
  <2>1. Tasks'
    BY <1>4 DEF DnsDeleted, Freed, StopperGoes, Served, Tasks
  <2> QED
    BY <1>4, <2>1 DEF DnsDeleted, Freed, StopperGoes, Served
<1> QED
  BY <1>1, <1>2, <1>3, <1>4 DEF Stopping

LEMMA ServedStep ==
  ASSUME "socket" \notin Faults
  PROVE  WifiInv /\ Portal /\ Served /\ [Next]_vars => Served'
<1> SUFFICES ASSUME WifiInv, Portal, Served, [Next]_vars PROVE Served'
  OBVIOUS
<1>1. CASE UNCHANGED vars
  BY <1>1, ServedKept DEF vars
<1>2. CASE TimePasses \/ Joined \/ AttemptFails \/ LinkBreaks
  BY <1>2, ServedKept DEF TimePasses, Joined, AttemptFails, LinkBreaks
<1>3. CASE DisconnectIgnored \/ Reconnect \/ GiveUp
  BY <1>3, ServedKept DEF DisconnectIgnored, Reconnect, GiveUp
<1>4. CASE HandlerOpens
  <2>1. CASE handler = "open"
    BY <1>4, <2>1, ServedKept DEF HandlerOpens
  <2>2. CASE handler = "dns"
    BY <1>4, <2>2, ServedStart DEF HandlerOpens, PortalOn
  <2> QED
    BY <1>4, <2>1, <2>2 DEF HandlerOpens
<1>5. CASE GotIp
  <2>1. stopper' = stopper \/ (stopper' = "wait" /\ ~s_stop_scheduled)
    BY <1>5 DEF GotIp
  <2>2. (stopper' = "await") = (stopper = "await")
    BY <2>1 DEF Portal
  <2> QED
    BY <1>5, <2>2, ServedKept DEF GotIp
<1>6. ASSUME NEW c \in Callers, Connect(c) \/ Calling(c) PROVE Served'
  <2>1. CASE CallerOpens(c)
    <3>1. CASE caller[c] = "open"
      BY <2>1, <3>1, ServedKept DEF CallerOpens, CallerGoes
    <3>2. CASE caller[c] = "dns"
      BY <2>1, <3>2, ServedStart DEF CallerOpens, CallerGoes, PortalOn
    <3> QED
      BY <2>1, <3>1, <3>2 DEF CallerOpens, CallerGoes
  <2>2. CASE ~CallerOpens(c)
    BY <1>6, <2>2, ServedKept DEF Calling, Connect, SetCredentials, CheckConnected, Disconnect,
       StartAttempt, AttemptRefused, JoinReported
  <2> QED
    BY <2>1, <2>2
<1>7. ASSUME NEW c \in Callers, Forget(c) PROVE Served'
  <2>1. PICK s \in Servers :
          /\ s_dns' = s /\ heap' = {s} /\ running' = {s}
          /\ task' = [u \in Servers |-> IF u = s THEN "start" ELSE "none"]
    BY <1>7 DEF Forget
  <2>2. port' = Null /\ stopper' = "none"
    BY <1>7 DEF Forget
  <2>3. Tasks'
    BY <2>1, <2>2, WifiAssumption DEF Tasks
  <2> QED
    BY <2>1, <2>2, <2>3 DEF Served
<1> QED
  BY <1>1, <1>2, <1>3, <1>4, <1>5, <1>6, <1>7, ServedTask, ServedStopping DEF Next, Handling

LEMMA ServedFunnel == WifiInv /\ Served => DnsFunnel
<1> SUFFICES ASSUME WifiTypeOK, Served, AtRest, s_dns # Null, ~orphan PROVE port # Null
  BY DEF WifiInv, DnsFunnel
<1>1. s_dns \in Servers /\ task[s_dns] \in {"none", "serve"} /\ stopper = "none"
  BY DEF WifiTypeOK, AtRest
<1> QED
  BY <1>1, WifiAssumption DEF Served, Tasks

----------------------------------------------------------------------------
(* How often event_handler may count a disconnect while the portal closes: *)
(* every caller posts one event at most before the next quiet moment, and  *)
(* one attempt may fail.                                                   *)
Ahead == {c \in Callers : caller[c] \notin {"connect", "poll", "done"}}
Calls == {c \in Callers : caller[c] \in {"open", "dns", "mode", "check", "disconnect"}}

One(p) == IF p THEN 1 ELSE 0

PostBudget == Pending + Cardinality(Ahead) + One(Fresh) <= Cardinality(Callers) + 1

RetryBudget ==
  Closing /\ Pending = Len(events) =>
    s_retry_count + Pending + Cardinality(Calls) + One(~lost) <= Cardinality(Callers) + 2

Budget == PostBudget /\ RetryBudget

RetriesSuffice == IsFiniteSet(Callers) /\ Retries >= Cardinality(Callers) + 2

LEMMA Counts ==
  ASSUME IsFiniteSet(Callers)
  PROVE  /\ Cardinality(Callers) \in Nat /\ Cardinality(Ahead) \in Nat /\ Cardinality(Calls) \in Nat
         /\ Cardinality(Calls) <= Cardinality(Ahead) /\ Cardinality(Ahead) <= Cardinality(Callers)
<1>1. Calls \subseteq Ahead /\ Ahead \subseteq Callers
  BY DEF Calls, Ahead
<1>2. IsFiniteSet(Ahead)
  BY <1>1, FS_Subset
<1> QED
  BY <1>1, <1>2, FS_Subset, FS_CardinalityType

LEMMA CountsNext ==
  ASSUME IsFiniteSet(Callers)
  PROVE  /\ Cardinality(Ahead') \in Nat /\ Cardinality(Calls') \in Nat
         /\ Cardinality(Calls') <= Cardinality(Ahead') /\ Cardinality(Ahead') <= Cardinality(Callers)
         /\ Ahead' \subseteq Ahead => Cardinality(Ahead') <= Cardinality(Ahead)
         /\ Calls' \subseteq Calls => Cardinality(Calls') <= Cardinality(Calls)
<1>1. Calls' \subseteq Ahead' /\ Ahead' \subseteq Callers
  BY DEF Calls, Ahead
<1>2. IsFiniteSet(Ahead') /\ IsFiniteSet(Ahead) /\ IsFiniteSet(Calls)
  <2>1. Ahead \subseteq Callers /\ Calls \subseteq Callers
    BY DEF Calls, Ahead
  <2> QED
    BY <1>1, <2>1, FS_Subset
<1> QED
  BY <1>1, <1>2, FS_Subset, FS_CardinalityType

LEMMA SumsBelow ==
  ASSUME NEW a \in Nat, NEW b \in Nat, NEW c \in Nat, NEW d \in Nat, NEW n \in Nat,
         NEW x \in Nat, NEW y \in Nat, a + b + c + d <= n + 2, x + y <= a + b
  PROVE  x + y + c + d <= n + 2
OBVIOUS

LEMMA BudgetInit == IsFiniteSet(Callers) /\ Init => Budget
<1> SUFFICES ASSUME IsFiniteSet(Callers), Init PROVE Budget
  OBVIOUS
<1>1. Pending = 0 /\ ~Fresh /\ ~Closing
  BY DEF Init, Pending, Fresh, Closing
<1> QED
  BY <1>1, Counts DEF Budget, PostBudget, RetryBudget, One

(* Steps that add no event, no count and no caller.                        *)
LEMMA BudgetKept ==
  ASSUME IsFiniteSet(Callers), WifiTypeOK, Budget,
         UNCHANGED <<events, lost, s_retry_count>>, Closing' => Closing, Fresh' => Fresh,
         Ahead' \subseteq Ahead, Calls' \subseteq Calls
  PROVE  Budget'
<1>1. Pending' = Pending /\ Pending \in Nat /\ Len(events') = Len(events) /\ s_retry_count \in Nat
  BY QueueKept, PendingType DEF WifiTypeOK
<1>2. One(Fresh)' <= One(Fresh) /\ One(Fresh)' \in {0, 1} /\ One(Fresh) \in {0, 1}
  BY DEF One
<1>3. One(~lost)' = One(~lost) /\ One(~lost) \in {0, 1}
  BY DEF One
<1>4. /\ Cardinality(Ahead') <= Cardinality(Ahead) /\ Cardinality(Calls') <= Cardinality(Calls)
      /\ Cardinality(Ahead') \in Nat /\ Cardinality(Calls') \in Nat
      /\ Cardinality(Ahead) \in Nat /\ Cardinality(Calls) \in Nat /\ Cardinality(Callers) \in Nat
  BY Counts, CountsNext
<1>5. PostBudget'
  BY <1>1, <1>2, <1>4 DEF Budget, PostBudget
<1>6. RetryBudget'
  BY <1>1, <1>3, <1>4 DEF Budget, RetryBudget
<1> QED
  BY <1>5, <1>6 DEF Budget

LEMMA DriverBudget ==
  ASSUME IsFiniteSet(Callers), WifiTypeOK, Order, Budget,
         TimePasses \/ Joined \/ AttemptFails \/ LinkBreaks
  PROVE  Budget'
<1>1. s_retry_count \in Nat /\ Pending \in Nat /\ Len(events) \in Nat
  BY PendingType, WifiAssumption DEF WifiTypeOK
<1>2. CASE TimePasses
  <2>1. /\ events = <<>> /\ UNCHANGED <<events, lost, s_retry_count, stopper>> /\ Calls' \subseteq Calls
    BY <1>2 DEF TimePasses, driver, flags, Calls
  <2>2. Pending' = 0 /\ Pending = 0 /\ Len(events') = 0 /\ Len(events) = 0
    BY <2>1, QueueKept DEF Pending
  <2>3. One(Fresh)' \in {0, 1} /\ One(~lost)' = One(~lost) /\ Closing' = Closing
        /\ One(~lost) \in {0, 1}
    BY <2>1 DEF One, Closing
  <2>4. PostBudget'
    BY <2>2, <2>3, Counts, CountsNext DEF PostBudget
  <2>5. RetryBudget'
    BY <1>1, <2>1, <2>2, <2>3, Counts, CountsNext DEF Budget, RetryBudget
  <2> QED
    BY <2>4, <2>5 DEF Budget
<1>3. CASE Joined \/ AttemptFails \/ LinkBreaks
  <2>1. Fresh /\ One(Fresh) = 1 /\ UNCHANGED <<s_retry_count, stopper, caller>>
    BY <1>3 DEF Joined, AttemptFails, LinkBreaks, Fresh, One, flags
  <2>2. Ahead' = Ahead /\ Calls' = Calls /\ Closing' = Closing
    BY <2>1 DEF Ahead, Calls, Closing
  <2>3. Pending + Cardinality(Ahead) <= Cardinality(Callers)
    <3>1. Pending + Cardinality(Ahead) + One(Fresh) <= Cardinality(Callers) + 1
      BY DEF Budget, PostBudget, RetryBudget
    <3>2. Pending + Cardinality(Ahead) + 1 <= Cardinality(Callers) + 1
      BY <2>1, <3>1
    <3>3. Cardinality(Ahead) \in Nat /\ Cardinality(Callers) \in Nat
      BY Counts
    <3> QED
      BY <1>1, <3>2, <3>3
  <2>4. CASE Joined
    <3>1. events = <<>>
      BY <2>4 DEF Joined, Order
    <3>2. events' = <<"got_ip">>
      BY <2>4, <3>1 DEF Joined
    <3>3. Pending' = 0 /\ Pending = 0 /\ Len(events') = 1
      BY <3>1, <3>2 DEF Pending
    <3>4. One(Fresh)' \in {0, 1}
      BY DEF One
    <3> QED
      BY <2>2, <2>3, <3>3, <3>4, Counts DEF Budget, PostBudget, RetryBudget
  <2>5. CASE AttemptFails \/ LinkBreaks
    <3>1. events' = Append(events, "disconnected") /\ ~Fresh'
      BY <2>5 DEF AttemptFails, LinkBreaks, Fresh
    <3>2. Pending' = Pending + 1 /\ Len(events') = Len(events) + 1
      BY <3>1, Posted DEF Order
    <3>3. One(Fresh)' = 0
      BY <3>1 DEF One
    <3>4. ASSUME Closing, Pending' = Len(events')
          PROVE  s_retry_count + Pending' + Cardinality(Calls) + One(~lost)' <= Cardinality(Callers) + 2
      <4>1. Pending = Len(events)
        BY <1>1, <3>2, <3>4
      <4>2. CASE AttemptFails
        <5>1. ~lost /\ lost'
          BY <3>4, <4>2 DEF AttemptFails, Closing
        <5>2. One(~lost) = 1 /\ One(~lost)' = 0
          BY <5>1 DEF One
        <5> QED
          BY <1>1, <3>2, <3>4, <4>1, <5>2, Counts DEF Budget, PostBudget, RetryBudget
      <4>3. CASE LinkBreaks
        <5>1. events # <<"got_ip">>
          BY <4>1 DEF Pending
        <5>2. events = <<>> /\ s_retry_count = 0
          BY <4>3, <5>1 DEF LinkBreaks, Order
        <5>3. Pending = 0
          BY <5>2 DEF Pending
        <5>4. One(~lost)' \in {0, 1}
          BY DEF One
        <5> QED
          BY <3>2, <5>2, <5>3, <5>4, Counts
      <4> QED
        BY <2>5, <4>2, <4>3
    <3> QED
      BY <2>1, <2>2, <2>3, <3>2, <3>3, <3>4, Counts, <1>1 DEF Budget, PostBudget, RetryBudget
  <2> QED
    BY <1>3, <2>4, <2>5
<1> QED
  BY <1>2, <1>3

(* The portal does not close while event_handler gives up.                 *)
LEMMA ClosingRetries ==
  ASSUME RetriesSuffice, WifiTypeOK, Order, Budget, GiveUp
  PROVE  ~Closing
<1> SUFFICES ASSUME Closing PROVE FALSE
  OBVIOUS
<1>1. Takes("disconnected") /\ ~Retried
  BY DEF GiveUp
<1>2. Pending = Len(events) /\ Pending > 0 /\ Pending \in Nat
  BY <1>1, Handled, PendingType DEF Order
<1>3. s_has_credentials
  BY <1>1 DEF Order, Takes
<1>4. s_retry_count \in Nat /\ s_retry_count >= Retries /\ Retries \in Nat
  BY <1>1, <1>3, WifiAssumption DEF Retried, WifiTypeOK
<1>5. One(~lost) \in {0, 1}
  BY DEF One
<1> QED
  BY <1>2, <1>4, <1>5, Counts DEF Budget, PostBudget, RetryBudget, RetriesSuffice

LEMMA HandlingBudget ==
  ASSUME RetriesSuffice, WifiTypeOK, Order, Budget, Handling
  PROVE  Budget'
<1>1. s_retry_count \in Nat /\ Pending \in Nat /\ Len(events) \in Nat
  BY PendingType, WifiAssumption DEF WifiTypeOK
<1>2. IsFiniteSet(Callers)
  BY DEF RetriesSuffice
<1>3. CASE DisconnectIgnored \/ Reconnect \/ GiveUp
  <2>1. Takes("disconnected") /\ UNCHANGED <<lost, stopper, caller>>
    BY <1>3 DEF DisconnectIgnored, Reconnect, GiveUp
  <2>2. /\ Pending = Len(events) /\ Pending' = Pending - 1 /\ Pending > 0
    BY <2>1, Handled DEF Order
  <2>3. ~Fresh
    <3>1. events # <<>> /\ Head(events) # "got_ip"
      BY <2>1 DEF Takes
    <3> QED
      BY <3>1 DEF Order, Fresh
  <2>4. ~Fresh'
    BY <1>3, <2>3 DEF DisconnectIgnored, Reconnect, GiveUp, Begins, Fresh, WifiTypeOK
  <2>5. One(Fresh) = 0 /\ One(Fresh)' = 0 /\ One(~lost)' = One(~lost) /\ One(~lost) \in {0, 1}
    BY <2>1, <2>3, <2>4 DEF One
  <2>6. Ahead' = Ahead /\ Calls' = Calls /\ Closing' = Closing
    BY <2>1 DEF Ahead, Calls, Closing
  <2>7. Closing => s_retry_count' \in {s_retry_count, s_retry_count + 1}
    BY <1>3, ClosingRetries DEF DisconnectIgnored, Reconnect
  <2>8. PostBudget'
    BY <1>1, <1>2, <2>2, <2>5, <2>6, Counts DEF Budget, PostBudget
  <2>9. ASSUME Closing
        PROVE  s_retry_count' + Pending' + Cardinality(Calls) + One(~lost) <= Cardinality(Callers) + 2
    <3>1. s_retry_count + Pending + Cardinality(Calls) + One(~lost) <= Cardinality(Callers) + 2
      BY <2>2, <2>9 DEF Budget, RetryBudget
    <3>2. s_retry_count' + Pending' <= s_retry_count + Pending
      BY <1>1, <2>2, <2>7, <2>9
    <3>3. s_retry_count' \in Nat /\ Pending' \in Nat
      BY <1>1, <2>2, <2>7, <2>9
    <3>4. Cardinality(Calls) \in Nat /\ Cardinality(Callers) \in Nat
      BY <1>2, Counts
    <3>5. One(~lost) \in Nat
      BY <2>5
    <3> QED
      BY <1>1, <3>1, <3>2, <3>3, <3>4, <3>5, SumsBelow
  <2>10. RetryBudget'
    BY <2>5, <2>6, <2>9 DEF RetryBudget
  <2> QED
    BY <2>8, <2>10 DEF Budget
<1>4. CASE HandlerOpens
  <2>1. UNCHANGED <<events, lost, s_retry_count, sta, aged, stopper, caller>>
    BY <1>4 DEF HandlerOpens, AccessPointOn, PortalOn, driver, flags
  <2> QED
    BY <1>2, <2>1, BudgetKept DEF Closing, Fresh, Ahead, Calls
<1>5. CASE GotIp
  <2>1. /\ Takes("got_ip") /\ s_retry_count' = 0 /\ UNCHANGED <<sta, caller>>
        /\ aged'["attempt"] = aged["attempt"]
    BY <1>5 DEF GotIp, Begins, WifiTypeOK
  <2>2. Pending' = Pending
    BY <2>1, GotHandled DEF Order
  <2>3. Fresh' = Fresh /\ Ahead' = Ahead /\ Calls' = Calls
    BY <2>1 DEF Fresh, Ahead, Calls
  <2>4. One(Fresh)' = One(Fresh) /\ One(Fresh) \in {0, 1} /\ One(~lost)' \in {0, 1}
    BY <2>3 DEF One
  <2> QED
    BY <1>1, <1>2, <2>1, <2>2, <2>3, <2>4, Counts DEF Budget, PostBudget, RetryBudget
<1> QED
  BY <1>3, <1>4, <1>5 DEF Handling

LEMMA StoppingBudget ==
  ASSUME IsFiniteSet(Callers), WifiTypeOK, Order, Budget, Stopping
  PROVE  Budget'
<1>1. UNCHANGED <<events, sta, aged, connected, s_retry_count, caller>>
  BY DEF Stopping, StopCheck, StopDns, DnsStopped, DnsDeleted, StopAccessPoint, StopFlag, StopEnds,
     driver, flags
<1>2. Fresh' = Fresh /\ Ahead' = Ahead /\ Calls' = Calls /\ Pending' = Pending
  BY <1>1, QueueKept DEF Fresh, Ahead, Calls
<1>3. CASE StopCheck
  <2>1. Closing' => s_retry_count = 0
    BY <1>3 DEF StopCheck, StopperGoes, Closing, Order
  <2>2. One(Fresh)' = One(Fresh) /\ One(Fresh) \in {0, 1} /\ One(~lost)' \in {0, 1} /\ Pending \in Nat
    BY <1>2, PendingType DEF One
  <2> QED
    BY <1>1, <1>2, <2>1, <2>2, Counts DEF Budget, PostBudget, RetryBudget
<1>4. CASE ~StopCheck
  <2>1. lost' = lost /\ (Closing' => Closing)
    BY <1>4 DEF Stopping, StopDns, DnsStopped, DnsDeleted, StopAccessPoint, StopFlag, StopEnds,
       StopperGoes, Closing, driver
  <2> QED
    BY <1>1, <1>2, <2>1, BudgetKept
<1> QED
  BY <1>3, <1>4

LEMMA CallingBudget ==
  ASSUME IsFiniteSet(Callers), WifiTypeOK, Order, Budget, NEW c \in Callers, Connect(c) \/ Calling(c)
  PROVE  Budget'
<1>1. s_retry_count \in Nat /\ Pending \in Nat /\ Len(events) \in Nat
  BY PendingType, WifiAssumption DEF WifiTypeOK
<1>2. CASE Connect(c)
  <2>1. UNCHANGED <<events, lost, sta, aged, stopper>> /\ s_retry_count' = 0
    BY <1>2 DEF Connect, driver
  <2>2. Ahead' = Ahead
    BY <1>2 DEF Connect, CallerGoes, Ahead, WifiTypeOK
  <2>3. Pending' = Pending /\ Fresh' = Fresh
    BY <2>1, QueueKept DEF Fresh
  <2>4. One(Fresh)' = One(Fresh) /\ One(Fresh) \in {0, 1} /\ One(~lost)' \in {0, 1}
    BY <2>3 DEF One
  <2>5. PostBudget'
    BY <2>2, <2>3, <2>4 DEF Budget, PostBudget
  <2>6. Pending + Cardinality(Calls') <= Cardinality(Callers) + 1
    BY <1>1, <2>2, <2>4, Counts, CountsNext DEF Budget, PostBudget
  <2>7. RetryBudget'
    BY <1>1, <2>1, <2>3, <2>4, <2>6, Counts, CountsNext DEF RetryBudget
  <2> QED
    BY <2>5, <2>7 DEF Budget
<1>3. CASE Disconnect(c)
  <2>1. /\ caller[c] = "disconnect" /\ caller' = [caller EXCEPT ![c] = "connect"]
        /\ sta' = "down" /\ UNCHANGED <<lost, stopper, s_retry_count>>
    BY <1>3 DEF Disconnect, CallerGoes
  <2>2. c \in Ahead /\ Ahead' = Ahead \ {c} /\ c \in Calls /\ Calls' = Calls \ {c}
    BY <2>1 DEF Ahead, Calls, WifiTypeOK
  <2>3. Cardinality(Ahead') = Cardinality(Ahead) - 1 /\ Cardinality(Calls') = Cardinality(Calls) - 1
    <3>1. IsFiniteSet(Ahead) /\ IsFiniteSet(Calls)
      <4>1. Ahead \subseteq Callers /\ Calls \subseteq Callers
        BY DEF Ahead, Calls
      <4> QED
        BY <4>1, FS_Subset
    <3> QED
      BY <2>2, <3>1, FS_RemoveElement
  <2>4. \/ Pending' = Pending /\ Len(events') = Len(events)
        \/ Pending' = Pending + 1 /\ Len(events') = Len(events) + 1
    BY <1>3, Posted, QueueKept DEF Disconnect, Order
  <2>5. ~Fresh' /\ Closing' = Closing
    BY <2>1 DEF Fresh, Closing
  <2>6. One(Fresh)' = 0 /\ One(Fresh) \in {0, 1} /\ One(~lost)' = One(~lost) /\ One(~lost) \in {0, 1}
    BY <2>1, <2>5 DEF One
  <2>7. PostBudget'
    BY <1>1, <2>3, <2>4, <2>6, Counts DEF Budget, PostBudget
  <2>8. Pending' + Cardinality(Calls') <= Pending + Cardinality(Calls)
    BY <1>1, <2>3, <2>4, Counts
  <2>9. Pending' = Len(events') => Pending = Len(events)
    BY <1>1, <2>4
  <2>10. Pending' \in Nat /\ Cardinality(Calls') \in Nat
    BY <1>1, <2>4, CountsNext
  <2>11. RetryBudget'
    BY <1>1, <2>1, <2>5, <2>6, <2>8, <2>9, <2>10, Counts DEF Budget, RetryBudget
  <2> QED
    BY <2>7, <2>11 DEF Budget
<1>4. CASE CallerOpens(c) \/ SetCredentials(c) \/ CheckConnected(c) \/ StartAttempt(c)
            \/ AttemptRefused(c) \/ JoinReported(c)
  <2>1. UNCHANGED <<events, lost, s_retry_count, stopper>>
    BY <1>4 DEF CallerOpens, SetCredentials, CheckConnected, StartAttempt, AttemptRefused, JoinReported,
       AccessPointOn, PortalOn, driver, flags
  <2>2. Fresh' => Fresh
    BY <1>4 DEF CallerOpens, SetCredentials, CheckConnected, StartAttempt, AttemptRefused, JoinReported,
       AccessPointOn, PortalOn, driver, Begins, Fresh, WifiTypeOK
  <2>3. Ahead' \subseteq Ahead /\ Calls' \subseteq Calls
    BY <1>4 DEF CallerOpens, SetCredentials, CheckConnected, StartAttempt, AttemptRefused, JoinReported,
       CallerGoes, Ahead, Calls, WifiTypeOK
  <2> QED
    BY <2>1, <2>2, <2>3, BudgetKept DEF Closing
<1> QED
  BY <1>2, <1>3, <1>4 DEF Calling

LEMMA BudgetStep ==
  ASSUME RetriesSuffice
  PROVE  WifiInv /\ Order /\ Budget /\ [Next]_vars => Budget'
<1> SUFFICES ASSUME WifiTypeOK, Order, Budget, [Next]_vars PROVE Budget'
  BY DEF WifiInv
<1>1. IsFiniteSet(Callers)
  BY DEF RetriesSuffice
<1>2. CASE UNCHANGED vars \/ \E s \in Servers : DnsTask(s)
  <2>1. UNCHANGED <<events, lost, s_retry_count, sta, aged, stopper, caller>>
    BY <1>2 DEF vars, driver, flags, DnsTask
  <2> QED
    BY <1>1, <2>1, BudgetKept DEF Closing, Fresh, Ahead, Calls
<1>3. ASSUME NEW c \in Callers, Forget(c) PROVE Budget'
  <2>1. Pending' = 0 /\ ~Fresh' /\ ~Closing'
    BY <1>3 DEF Forget, Pending, Fresh, Closing
  <2>2. One(Fresh)' = 0
    BY <2>1 DEF One
  <2> QED
    BY <1>1, <2>1, <2>2, Counts, CountsNext DEF Budget, PostBudget, RetryBudget
<1> QED
  BY <1>1, <1>2, <1>3, DriverBudget, HandlingBudget, StoppingBudget, CallingBudget DEF Next

(* A station that is down and for which nothing is on its way has the      *)
(* portal, and nobody closes it.                                           *)
Reachable ==
  sta = "down" /\ Pending = 0 /\ AtConnect = {} /\ handler = "idle" =>
    s_portal_active /\ ~Closing

LEMMA ReachableInit == Init => Reachable
<1> SUFFICES ASSUME Init, sta = "down" PROVE s_portal_active /\ ~Closing
  BY DEF Reachable
<1>1. ~s_has_credentials
  BY DEF Init
<1> QED
  BY <1>1 DEF Init, Closing

(* Steps after which nothing more has come to rest.                        *)
LEMMA ReachableKept ==
  ASSUME Reachable, UNCHANGED <<sta, events, handler, s_portal_active>>,
         AtConnect \subseteq AtConnect', Closing' => Closing
  PROVE  Reachable'
<1>1. Pending' = Pending
  BY QueueKept
<1> QED
  BY <1>1 DEF Reachable

LEMMA HandlingReachable ==
  ASSUME RetriesSuffice, WifiTypeOK, Order, Linked, Portal, Budget, Reachable, Handling
  PROVE  Reachable'
<1>1. CASE DisconnectIgnored
  <2>1. UNCHANGED <<sta, caller>> /\ s_ignore_next_disconnect
    BY <1>1 DEF DisconnectIgnored
  <2>2. sta = "down" => AtConnect # {}
    BY <2>1 DEF Linked, Ignoring
  <2>3. AtConnect' = AtConnect
    BY <2>1 DEF AtConnect
  <2> QED
    BY <2>1, <2>2, <2>3 DEF Reachable
<1>2. CASE Reconnect
  BY <1>2 DEF Reconnect, Reachable, WifiTypeOK
<1>3. CASE GiveUp
  <2>1. ~Closing
    BY <1>3, ClosingRetries
  <2>2. /\ UNCHANGED <<s_portal_active, stopper>>
        /\ handler' = IF s_portal_active THEN "idle" ELSE "open"
    BY <1>3 DEF GiveUp
  <2> QED
    BY <2>1, <2>2 DEF Reachable, Closing
<1>4. CASE HandlerOpens
  <2>1. CASE handler = "open"
    BY <1>4, <2>1 DEF HandlerOpens, Reachable
  <2>2. CASE handler = "dns"
    <3>1. s_portal_active' /\ stopper' = stopper
      BY <1>4, <2>2 DEF HandlerOpens, PortalOn
    <3>2. ~Closing
      BY <2>2 DEF Portal, Opens, Closing
    <3> QED
      BY <3>1, <3>2 DEF Reachable, Closing
  <2> QED
    BY <1>4, <2>1, <2>2 DEF HandlerOpens
<1>5. CASE GotIp
  <2>1. Takes("got_ip") /\ sta' = sta
    BY <1>5 DEF GotIp
  <2>2. Pending' = Pending /\ (sta = "down" => Pending > 0)
    BY <2>1, GotHandled DEF Order, Takes
  <2> QED
    BY <2>1, <2>2 DEF Reachable
<1> QED
  BY <1>1, <1>2, <1>3, <1>4, <1>5 DEF Handling

LEMMA StoppingReachable ==
  ASSUME WifiTypeOK, Order, Reachable, Stopping
  PROVE  Reachable'
<1>1. UNCHANGED <<sta, events, handler, caller>>
  BY DEF Stopping, StopCheck, StopDns, DnsStopped, DnsDeleted, StopAccessPoint, StopFlag, StopEnds,
     driver
<1>2. AtConnect' = AtConnect /\ Pending' = Pending
  BY <1>1, QueueKept DEF AtConnect
<1> SUFFICES ASSUME sta = "down", Pending = 0, AtConnect = {}, handler = "idle"
             PROVE  s_portal_active' /\ ~Closing'
  BY <1>1, <1>2 DEF Reachable
<1>3. s_portal_active /\ ~Closing /\ ~connected
  BY DEF Reachable, Order
<1> QED
  BY <1>3 DEF Stopping, StopCheck, StopDns, DnsStopped, DnsDeleted, StopAccessPoint, StopFlag, StopEnds,
     StopperGoes, Closing, flags

LEMMA CallingReachable ==
  ASSUME WifiTypeOK, Reachable, NEW c \in Callers, Connect(c) \/ Calling(c)
  PROVE  Reachable'
<1>1. CASE Disconnect(c)
  <2>1. c \in AtConnect'
    BY <1>1 DEF Disconnect, CallerGoes, AtConnect, WifiTypeOK
  <2> QED
    BY <2>1 DEF Reachable
<1>2. CASE StartAttempt(c) \/ AttemptRefused(c)
  BY <1>2 DEF StartAttempt, AttemptRefused, driver, Reachable
<1>3. CASE Connect(c) \/ SetCredentials(c) \/ CheckConnected(c) \/ JoinReported(c) \/ CallerOpens(c)
  <2>1. UNCHANGED <<sta, events, handler, stopper>> /\ (s_portal_active => s_portal_active')
    BY <1>3 DEF Connect, SetCredentials, CheckConnected, JoinReported, CallerOpens, AccessPointOn,
       PortalOn, driver, flags
  <2>2. AtConnect \subseteq AtConnect'
    BY <1>3 DEF Connect, SetCredentials, CheckConnected, JoinReported, CallerOpens, CallerGoes,
       AtConnect, WifiTypeOK
  <2>3. Pending' = Pending
    BY <2>1, QueueKept
  <2> QED
    BY <2>1, <2>2, <2>3 DEF Reachable, Closing
<1> QED
  BY <1>1, <1>2, <1>3 DEF Calling

LEMMA ReachableStep ==
  ASSUME RetriesSuffice
  PROVE  WifiInv /\ Order /\ Linked /\ Portal /\ Budget /\ Reachable /\ [Next]_vars => Reachable'
<1> SUFFICES ASSUME WifiTypeOK, Order, Linked, Portal, Budget, Reachable, [Next]_vars
             PROVE  Reachable'
  BY DEF WifiInv
<1>1. CASE UNCHANGED vars \/ TimePasses \/ \E s \in Servers : DnsTask(s)
  <2>1. UNCHANGED <<sta, events, handler, s_portal_active, stopper>>
    BY <1>1 DEF vars, driver, flags, TimePasses, DnsTask
  <2>2. AtConnect \subseteq AtConnect'
    BY <1>1 DEF vars, TimePasses, DnsTask, AtConnect
  <2> QED
    BY <2>1, <2>2, ReachableKept DEF Closing
<1>2. CASE Joined
  BY <1>2 DEF Joined, Reachable
<1>3. CASE AttemptFails \/ LinkBreaks
  <2>1. Pending' > 0
    BY <1>3, Posted, PendingType DEF AttemptFails, LinkBreaks, Order
  <2> QED
    BY <2>1 DEF Reachable
<1>4. ASSUME NEW c \in Callers, Forget(c) PROVE Reachable'
  BY <1>4 DEF Forget, Reachable, Closing
<1> QED
  BY <1>1, <1>2, <1>3, <1>4, HandlingReachable, StoppingReachable, CallingReachable DEF Next

LEMMA ReachableIsOpen == WifiInv /\ Portal /\ Reachable => NeverStranded
<1> SUFFICES ASSUME WifiTypeOK, Portal, Reachable, AtRest, sta = "down" PROVE PortalOpen
  BY DEF WifiInv, NeverStranded
<1>1. Pending = 0 /\ AtConnect = {} /\ handler = "idle" /\ stopper = "none"
  BY DEF AtRest, Pending, AtConnect, Busy
<1> QED
  BY <1>1 DEF Reachable, Portal, PortalOpen

----------------------------------------------------------------------------
(* The state of wifi_manager.c and dns_server.c keeps its types, and the   *)
(* memory of a DNS server is freed only when its task is gone: whoever     *)
(* opens the portal while stop_portal_task closes it, and whether the task *)
(* ends within the second that dns_server_stop waits or is deleted.        *)
THEOREM ServerMemory == Spec => [](WifiTypeOK /\ MemoryInUse)
<1>1. WifiInv => WifiTypeOK /\ MemoryInUse
  BY DEF WifiInv
<1> QED
  BY <1>1, InitInv, NextInv, PTL DEF Spec, Safety

(* A disconnect that nobody asked for is never ignored, for any number of  *)
(* tasks that call wifi_manager_connect at once: s_ignore_next_disconnect  *)
(* is lowered by the event it was raised for, or by the esp_wifi_connect   *)
(* that is refused.                                                        *)
THEOREM IgnoresNothingElse == Spec => []NothingIgnored
<1>1. Spec => []WifiInv
  BY InitInv, NextInv, PTL DEF Spec, Safety
<1>2. Spec => []Order
  BY <1>1, OrderInit, OrderStep, PTL DEF Spec, Safety
<1>3. Spec => []Linked
  BY <1>1, <1>2, LinkedInit, LinkedStep, PTL DEF Spec, Safety
<1> QED
  BY <1>1, <1>2, <1>3, LinkedIgnoresNothing, PTL

(* Where sockets do not fail, an open portal whose DNS server could be     *)
(* started is answered on port 53, however openings by event_handler and   *)
(* wifi_manager_connect and the closing by stop_portal_task interleave.    *)
THEOREM PortalIsAnswered ==
  ASSUME "socket" \notin Faults
  PROVE  Spec => []DnsFunnel
<1>1. Spec => []WifiInv
  BY InitInv, NextInv, PTL DEF Spec, Safety
<1>2. Spec => []Portal
  BY <1>1, PortalInit, PortalStep, PTL DEF Spec, Safety
<1>3. WifiInv /\ Portal /\ Served /\ [Next]_vars => Served'
  BY ServedStep
<1>4. Spec => []Served
  BY <1>1, <1>2, <1>3, ServedInit, PTL DEF Spec, Safety
<1> QED
  BY <1>1, <1>4, ServedFunnel, PTL

(* If at least two retries more are made than there are tasks that call    *)
(* wifi_manager_connect (the code makes 5, and has 2 such tasks), the      *)
(* device at rest is on the network, joining it, or offers its portal: the *)
(* retries outlast the closing of the portal by stop_portal_task, which    *)
(* does not look again at whether the station is connected.                *)
THEOREM DeviceNeverStranded ==
  ASSUME RetriesSuffice
  PROVE  Spec => []NeverStranded
<1>1. Spec => []WifiInv
  BY InitInv, NextInv, PTL DEF Spec, Safety
<1>2. Spec => []Order
  BY <1>1, OrderInit, OrderStep, PTL DEF Spec, Safety
<1>3. Spec => []Linked
  BY <1>1, <1>2, LinkedInit, LinkedStep, PTL DEF Spec, Safety
<1>4. Spec => []Portal
  BY <1>1, PortalInit, PortalStep, PTL DEF Spec, Safety
<1>5. Init => Budget
  BY BudgetInit DEF RetriesSuffice
<1>6. WifiInv /\ Order /\ Budget /\ [Next]_vars => Budget'
  BY BudgetStep
<1>7. Spec => []Budget
  BY <1>1, <1>2, <1>5, <1>6, PTL DEF Spec, Safety
<1>8. WifiInv /\ Order /\ Linked /\ Portal /\ Budget /\ Reachable /\ [Next]_vars => Reachable'
  BY ReachableStep
<1>9. Spec => []Reachable
  BY <1>1, <1>2, <1>3, <1>4, <1>7, <1>8, ReachableInit, PTL DEF Spec, Safety
<1> QED
  BY <1>1, <1>4, <1>9, ReachableIsOpen, PTL
=============================================================================
