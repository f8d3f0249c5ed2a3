--------------------------- MODULE AgentControl ---------------------------
(***************************************************************************)
(* The switch of the local agent channel and its connection to the native  *)
(* host (agentControlNativePort.ts, agentControl.ts, the settings page and *)
(* the listeners of index.ts).  The setting and the permission are         *)
(* durable; the worker hears of a change by an event, a page that asks for *)
(* the status makes it read the setting again, and a startup brings        *)
(* setting and permission together.  Requests of the host wait for one     *)
(* another in `line' (agentOperationGate.ts), one command at a time.       *)
(***************************************************************************)
EXTENDS Naturals, Sequences, SequencesExt

CONSTANTS None,
          Conns,      \* connections, 1..n: a new one takes the next number
          Requests,   \* requests of hosts, 1..n: the host's ids are fresh
          MaxEvents   \* clicks, status messages, failures and revocations

VARIABLES setting,    \* agentControlEnabled as it is stored
          permission, \* is the optional permission held?
          page,       \* the settings page's change in progress
          heard,      \* changes of the setting not yet delivered to the worker
          revoked,    \* is a removal of the permission not yet delivered?
          sync,       \* the value a syncWithSettings has read, or None
          startup,    \* reconcileAgentControlPermissionState: how far it is
          ctl,        \* the controller: enabled, port, timer, status, active
          hosts,      \* connections whose host still runs
          asked,      \* requests: the connection that asked and where each is
          line,       \* requests in the agent lock, the head being served
          left        \* what is left of MaxEvents

store == <<setting, permission, heard, revoked>>
work == <<asked, line>>
vars == <<setting, permission, page, heard, revoked, sync, startup, ctl, hosts, asked, line, left>>

Status == {"disabled", "connecting", "connected", "unavailable"}
Served == {"none", "waiting", "checked", "answered", "dropped"}
Ctl == [enabled : BOOLEAN, port : Conns \cup {None}, timer : BOOLEAN,
        status : Status, active : SUBSET Requests]

(* The status a page is shown is true to the port: "disabled" means that   *)
(* no port is held, "connecting" that one is and that its timer will end   *)
(* it.  A request is active only until it is answered, and no request of   *)
(* an earlier port stands in the way of the ids of the present one.        *)
TypeOK ==
    /\ setting \in BOOLEAN /\ permission \in BOOLEAN /\ revoked \in BOOLEAN
    /\ page \in {"idle", "granted", "off"}
    /\ heard \in Seq(BOOLEAN)
    /\ sync \in BOOLEAN \cup {None}
    /\ startup \in {"begin", "off", "on", "sync", "done"}
    /\ ctl \in Ctl /\ hosts \subseteq Conns
    /\ asked \in [Requests -> [conn : Conns \cup {None}, at : Served]]
    /\ line \in Seq(Requests)
    /\ ctl.status \in {"connecting", "connected"} => ctl.port # None /\ ctl.enabled
    /\ ctl.status = "disabled" => ctl.port = None /\ ~ctl.enabled
    /\ ctl.timer <=> ctl.status = "connecting"
    /\ \A r \in ctl.active :
          /\ asked[r].at \in {"waiting", "checked"}
          /\ ctl.port # None => asked[r].conn = ctl.port

Off == [enabled |-> FALSE, port |-> None, timer |-> FALSE, status |-> "disabled", active |-> {}]

Init ==
    /\ setting \in BOOLEAN /\ permission \in BOOLEAN
    /\ page = "idle" /\ heard = <<>> /\ revoked = FALSE
    /\ sync = None /\ startup = "begin"
    /\ ctl = Off /\ hosts = {}
    /\ asked = [r \in Requests |-> [conn |-> None, at |-> "none"]]
    /\ line = <<>>
    /\ left = MaxEvents

Disturb == left > 0 /\ left' = left - 1

-----------------------------------------------------------------------------
(* The stored setting and the permission.                                  *)

(* chrome.storage tells the worker of a change, and only of a change.      *)
Write(v) ==
    /\ setting' = v
    /\ heard' = IF setting = v THEN heard ELSE Append(heard, v)

(* chrome.permissions.remove: it may fail, and tells of what it removed.   *)
RemovePermission ==
    \/ permission' = FALSE /\ revoked' = (revoked \/ permission) /\ UNCHANGED left
    \/ Disturb /\ UNCHANGED <<permission, revoked>>

TurnOn ==
    /\ page = "idle" /\ ~setting
    /\ Disturb
    /\ \E granted \in BOOLEAN :
        /\ permission' = (permission \/ granted)
        /\ page' = IF granted THEN "granted" ELSE "idle"
    /\ UNCHANGED <<setting, heard, revoked, sync, startup, ctl, hosts, asked, line>>

SaveOn ==
    /\ page = "granted" /\ page' = "idle"
    /\ Write(TRUE)
    /\ UNCHANGED <<permission, revoked, sync, startup, ctl, hosts, asked, line, left>>

(* The feature stayed off: no permission is kept for it.                   *)
SaveFails ==
    /\ page = "granted" /\ page' = "idle"
    /\ left > 0
    /\ permission' = FALSE /\ revoked' = (revoked \/ permission)
    /\ left' = left - 1
    /\ UNCHANGED <<setting, heard, sync, startup, ctl, hosts, asked, line>>

TurnOff ==
    /\ page = "idle" /\ setting
    /\ Disturb
    /\ Write(FALSE)
    /\ page' = "off"
    /\ UNCHANGED <<permission, revoked, sync, startup, ctl, hosts, asked, line>>

DropPermission ==
    /\ page = "off" /\ page' = "idle"
    /\ RemovePermission
    /\ UNCHANGED <<setting, heard, sync, startup, ctl, hosts, asked, line>>

RevokedByUser ==
    /\ permission
    /\ Disturb
    /\ permission' = FALSE /\ revoked' = TRUE
    /\ UNCHANGED <<setting, page, heard, sync, startup, ctl, hosts, asked, line>>

OnRemoved ==
    /\ revoked /\ revoked' = FALSE
    /\ Write(FALSE)
    /\ UNCHANGED <<permission, page, sync, startup, ctl, hosts, asked, line, left>>

-----------------------------------------------------------------------------
(* The connection.                                                         *)

Unavailable(c) == [c EXCEPT !.status = "unavailable", !.timer = FALSE]

(* Connection numbers are used once; the host of a new one may not exist.  *)
Fresh == {c \in Conns : \A d \in Conns : d >= c =>
            d \notin hosts /\ d # ctl.port /\ \A r \in Requests : asked[r].conn # d}

Connect_NoTimer(c) ==
    IF c.port # None
    THEN ctl' = c /\ UNCHANGED hosts
    ELSE \/ \E n \in Fresh :
               /\ \A m \in Fresh : n <= m
               /\ hosts' = hosts \cup {n}
               /\ ctl' = [c EXCEPT !.port = n, !.status = "connecting"]
         \/ /\ ctl' = Unavailable(c) /\ UNCHANGED hosts

Connect(c) ==
    IF c.port # None
    THEN ctl' = c /\ UNCHANGED hosts
    ELSE \/ \E n \in Fresh :
               /\ \A m \in Fresh : n <= m
               /\ hosts' = hosts \cup {n}
               /\ ctl' = [c EXCEPT !.port = n, !.timer = TRUE, !.status = "connecting"]
         \/ /\ ctl' = Unavailable(c) /\ UNCHANGED hosts

(* setEnabled: switching off always disconnects, switching on connects     *)
(* when it is a change.                                                    *)
SetEnabled(v) ==
    IF ~v THEN ctl' = Off /\ UNCHANGED hosts
    ELSE IF ~ctl.enabled \/ ctl.status = "disabled"
         THEN Connect([ctl EXCEPT !.enabled = TRUE])
         ELSE UNCHANGED <<ctl, hosts>>

Changed ==
    /\ heard # <<>>
    /\ heard' = Tail(heard)
    /\ SetEnabled(Head(heard))
    /\ UNCHANGED <<setting, permission, page, revoked, sync, startup, asked, line, left>>

(* A status message: syncWithSettings reads the setting, awaits, applies.  *)
ReadSetting ==
    /\ sync = None
    /\ Disturb
    /\ sync' = setting
    /\ UNCHANGED <<setting, permission, page, heard, revoked, startup, ctl, hosts, asked, line>>

ApplySetting ==
    /\ sync # None /\ sync' = None
    /\ SetEnabled(sync)
    /\ UNCHANGED <<setting, permission, page, heard, revoked, startup, asked, line, left>>

(* The first message of the host; it may come after its first requests.    *)
Ready(c) ==
    /\ c \in hosts /\ ctl.port = c
    /\ ctl.status # "connected"
    /\ ctl' = [ctl EXCEPT !.timer = FALSE, !.status = "connected"]
    /\ UNCHANGED <<store, page, sync, startup, hosts, work, left>>

(* No ready message in time: the port is given up, and with it the answers *)
(* of the requests that came through it; they stay active until they end.  *)
TimesOut ==
    /\ ctl.timer
    /\ ctl' = [Unavailable(ctl) EXCEPT !.port = None]
    /\ UNCHANGED <<store, page, sync, startup, hosts, work, left>>

(* The host ends, by itself or after the port was closed; only the current *)
(* port is told.                                                           *)
HostEnds(c) ==
    /\ c \in hosts /\ Disturb
    /\ hosts' = hosts \ {c}
    /\ ctl' = IF ctl.port # c THEN ctl
              ELSE IF ctl.enabled THEN [Unavailable(ctl) EXCEPT !.port = None, !.active = {}]
              ELSE Off
    /\ UNCHANGED <<store, page, sync, startup, work>>

-----------------------------------------------------------------------------
(* The requests of the host.                                               *)

Ask(c, r) ==
    /\ c \in hosts /\ ctl.port = c
    /\ asked[r].at = "none" /\ \A q \in Requests : q < r => asked[q].at # "none"
    /\ asked' = [asked EXCEPT ![r] = [conn |-> c, at |-> "waiting"]]
    /\ ctl' = [ctl EXCEPT !.active = @ \cup {r}]
    /\ UNCHANGED <<store, page, sync, startup, hosts, line, left>>

(* sendResponse and the end of the request: an answer is sent through the  *)
(* port of the question or not at all; a failing send makes the channel    *)
(* unavailable.                                                            *)
Answer(r) ==
    LET c == [ctl EXCEPT !.active = @ \ {r}]
        Settled(at) == asked' = [asked EXCEPT ![r].at = at]
    IN  \/ ctl.port = asked[r].conn /\ ctl' = c /\ Settled("answered") /\ UNCHANGED left
        \/ ctl.port = asked[r].conn /\ ctl' = Unavailable(c) /\ Settled("dropped") /\ Disturb
        \/ ctl.port # asked[r].conn /\ ctl' = c /\ Settled("dropped") /\ UNCHANGED left

(* The startup failed, or the request is none: answered outside the lock.  *)
Refuse(r) ==
    /\ asked[r].at = "waiting" /\ ~Contains(line, r)
    /\ Answer(r)
    /\ UNCHANGED <<store, page, sync, startup, hosts, line>>

Enter(r) ==
    /\ asked[r].at = "waiting" /\ ~Contains(line, r)
    /\ line' = Append(line, r)
    /\ UNCHANGED <<store, page, sync, startup, ctl, hosts, asked, left>>

(* The setting is read again inside the lock.                              *)
CheckSetting ==
    /\ line # <<>> /\ asked[Head(line)].at = "waiting"
    /\ IF setting
       THEN asked' = [asked EXCEPT ![Head(line)].at = "checked"] /\ UNCHANGED <<ctl, line, left>>
       ELSE Answer(Head(line)) /\ line' = Tail(line)
    /\ UNCHANGED <<store, page, sync, startup, hosts>>

RunCommand ==
    /\ line # <<>> /\ asked[Head(line)].at = "checked"
    /\ Answer(Head(line))
    /\ line' = Tail(line)
    /\ UNCHANGED <<store, page, sync, startup, hosts>>

-----------------------------------------------------------------------------
(* The startup of the worker brings setting and permission together and    *)
(* then applies the setting.                                               *)

IsEnabled ==
    /\ startup = "begin"
    /\ startup' = IF setting THEN "on" ELSE "off"
    /\ UNCHANGED <<store, page, sync, ctl, hosts, work, left>>

Reconcile ==
    /\ startup \in {"on", "off"} /\ startup' = "sync"
    /\ \/ (startup = "on") = permission /\ UNCHANGED <<store, left>>
       \/ startup = "off" /\ permission /\ RemovePermission
          /\ UNCHANGED <<setting, heard>>
       \/ startup = "on" /\ ~permission /\ Write(FALSE) /\ UNCHANGED <<permission, revoked, left>>
    /\ UNCHANGED <<page, sync, ctl, hosts, work>>

FirstSync ==
    /\ startup = "sync" /\ sync = None
    /\ startup' = "done" /\ sync' = setting
    /\ UNCHANGED <<store, page, ctl, hosts, work, left>>

Step == \/ SaveOn \/ DropPermission \/ OnRemoved \/ Changed \/ ApplySetting \/ TimesOut
        \/ IsEnabled \/ Reconcile \/ FirstSync \/ CheckSetting \/ RunCommand
        \/ \E r \in Requests : Enter(r)

Next == \/ Step
        \/ TurnOn \/ SaveFails \/ TurnOff \/ RevokedByUser \/ ReadSetting
        \/ \E c \in Conns : Ready(c) \/ HostEnds(c) \/ \E r \in Requests : Ask(c, r)
        \/ \E r \in Requests : Refuse(r)

(* Promises settle, timers fire, events are delivered; the user, the host  *)
(* and the browser's failures owe nothing.                                 *)
Fairness == /\ WF_vars(Changed) /\ WF_vars(ApplySetting) /\ WF_vars(TimesOut)
            /\ WF_vars(CheckSetting) /\ WF_vars(RunCommand)
            /\ \A r \in Requests : WF_vars(Enter(r))

Spec == Init /\ [][Next]_vars /\ Fairness

-----------------------------------------------------------------------------
(* "Connecting" never lasts, and every request that arrives is answered    *)
(* unless its port is given up first.                                      *)
Settled == /\ ctl.status # "connecting"
           /\ \A r \in Requests : asked[r].at \in {"none", "answered", "dropped"}
ChannelSettles == []<>Settled

(* What SECURITY.md promises: with the setting off, every change delivered *)
(* and no read under way, no host is connected.                            *)
OffDisconnects ==
    ~setting /\ heard = <<>> /\ sync = None /\ startup = "done" => ctl.port = None
=============================================================================
