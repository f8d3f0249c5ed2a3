------------------------------ MODULE PageData ------------------------------
(***************************************************************************)
(* The copy of the storage an extension page works with                    *)
(* (useWorkspaceData.ts): it is read once when the page opens, while the   *)
(* changes the worker makes arrive as storage events from the first        *)
(* moment, in their order, each read being answered at its own time.  The  *)
(* writers are those of core/storage: the queue of the window bindings,    *)
(* the settings with their local and their portable half, and the plain    *)
(* keys.  A stored value is the number of the write that made it; a switch *)
(* state is the window it is about.                                        *)
(***************************************************************************)
EXTENDS Naturals, Sequences, FiniteSets, Lists

CONSTANTS None, Failed, Raw,  \* Raw: the activeWorkspaceId of the stored state
          Own, Other,         \* the window of the page and another one
          MaxWrites,    \* bound; a save of the settings counts as two writes
          MaxFaults,    \* bound: reads that fail
          Touched       \* sets of keys: the writers of one behaviour keep to one

VARIABLES store,      \* the stored keys
          saving,     \* settings whose portable half is not yet written, or 0
          bindQueue,  \* updates of the bindings in their queue
          bindRead,   \* the copy the head of that queue has read, or None
          meant,      \* the bindings all updates together mean
          events,     \* storage events not yet delivered to the page
          waiting,    \* reads the page has asked for
          got,        \* reads that have been answered
          refreshes,  \* reads of the settings that events have started
          page,       \* the state of the page
          touched, made, faults

writers == <<saving, bindQueue, bindRead, meant>>
reads == <<waiting, got, refreshes>>
vars == <<store, saving, bindQueue, bindRead, meant, events, waiting, got, refreshes, page, touched, made, faults>>

Windows == {Own, Other}
Session == {"bindings", "jobs"}
Unbound == [w \in Windows |-> FALSE]

(* The reads of a page.  One whose keys no writer touches can be answered  *)
(* at once: its answer is the same at any time.                            *)
Workspaces(s) == IF s.workspaces # None THEN s.workspaces ELSE s.tags
Answer(s, k) ==
    CASE k = "window" -> "normal"
      [] k = "workspaces" -> Workspaces(s)
      [] k = "state" -> <<s.main, s.switch>>
      [] OTHER -> s[k]
Open(k, keys) ==
    LET of == CASE k = "workspaces" -> {"workspaces", "tags"}
                [] k = "state" -> {"main", "switch"}
                [] OTHER -> {k}
    IN  k = "window" \/ of \cap keys # {}
AskedOf(ks) == {k \in ks : Open(k, touched)}
KnownOf(s, ks) == [k \in {x \in ks : ~Open(x, touched)} |-> Answer(s, k)]

FirstReads == {"window", "workspaces", "local", "sync", "state"}
Init ==
    /\ touched \in Touched
    /\ \E legacy \in {"tags" \in touched}, current \in (IF "switch" \in touched THEN {None, Own, Other} ELSE {None}) :
         store = [workspaces |-> IF legacy THEN None ELSE 0, tags |-> IF legacy THEN 0 ELSE None,
                  main |-> 0, switch |-> current, local |-> 0, sync |-> 0,
                  bindings |-> Unbound, jobs |-> FALSE]
    /\ saving = 0 /\ bindQueue = <<>> /\ bindRead = None /\ meant = Unbound
    /\ events = <<>> /\ made = 0 /\ faults = 0
    /\ waiting = AskedOf(FirstReads) /\ got = KnownOf(store, FirstReads) /\ refreshes = {}
    /\ page = [window |-> "pending", bound |-> FALSE, newBindings |-> None, newJobs |-> None,
               loaded |-> {}, hydrated |-> FALSE, workspaces |-> None, settings |-> <<None, None>>,
               refresh |-> 0, main |-> None, switch |-> None, active |-> Raw, loading |-> FALSE]

----------------------------------------------------------------------------
(* The writers.  chrome.storage reports the keys whose value has changed.  *)
Stored(change) ==
    LET changed == {k \in DOMAIN change : change[k] # store[k]}
    IN  /\ store' = Over(change, store)
        /\ events' = IF changed = {} THEN events
                     ELSE Append(events, [k \in changed |-> change[k]])

Write(change) ==
    /\ DOMAIN change \subseteq touched
    /\ made < MaxWrites /\ made' = made + 1
    /\ Stored(change)
    /\ UNCHANGED <<writers, reads, page, touched, faults>>

(* The migration writes the canonical list first and removes the old key.  *)
SaveWorkspaces == Write([workspaces |-> made + 1])
Migrate == store.workspaces = None /\ Write([workspaces |-> store.tags])
RemoveTags ==
    /\ "tags" \in touched /\ store.tags # None /\ store.workspaces # None
    /\ Stored([tags |-> None])
    /\ UNCHANGED <<writers, reads, page, touched, made, faults>>
SaveMain == Write([main |-> made + 1])
SaveSwitch == \E w \in {None, Own, Other} : Write([switch |-> w])
SaveState == \E w \in {None, Own} : Write([main |-> made + 1, switch |-> w])
SaveJobs == Write([jobs |-> ~store.jobs])
SyncSettings == Write([sync |-> made + 1])

SaveSettings ==
    /\ {"local", "sync"} \subseteq touched
    /\ saving = 0 /\ made + 2 <= MaxWrites /\ made' = made + 2 /\ saving' = made + 1
    /\ Stored([local |-> made + 1])
    /\ UNCHANGED <<bindQueue, bindRead, meant, reads, page, touched, faults>>
SavePortable ==
    /\ saving # 0 /\ saving' = 0 /\ Stored([sync |-> saving])
    /\ UNCHANGED <<bindQueue, bindRead, meant, reads, page, touched, made, faults>>

(* set, remove and removeForWorkspace: every update reads and writes the   *)
(* whole map, one after another.                                           *)
Bound(bindings, op) == [w \in Windows |-> IF w \in op.windows THEN op.bound ELSE bindings[w]]
UpdateBindings_Unqueued ==   \* mutant: the head has read before this one is asked for
    \E op \in [windows : {{Own}, {Other}, Windows}, bound : BOOLEAN] :
      /\ "bindings" \in touched /\ (op.bound => op.windows # Windows)
      /\ made < MaxWrites /\ made' = made + 1
      /\ IF bindRead = None THEN bindQueue' = Append(bindQueue, op) /\ UNCHANGED <<store, events>>
         ELSE UNCHANGED bindQueue /\ Stored([bindings |-> Bound(store.bindings, op)])
      /\ meant' = Bound(meant, op)
      /\ UNCHANGED <<saving, bindRead, reads, page, touched, faults>>

UpdateBindings ==
    \E op \in [windows : {{Own}, {Other}, Windows}, bound : BOOLEAN] :
      /\ "bindings" \in touched /\ (op.bound => op.windows # Windows)
      /\ made < MaxWrites /\ made' = made + 1
      /\ bindQueue' = Append(bindQueue, op)
      /\ meant' = Bound(meant, op)
      /\ UNCHANGED <<store, saving, bindRead, events, reads, page, touched, faults>>
ReadBindings ==
    /\ bindQueue # <<>> /\ bindRead = None
    /\ bindRead' = store.bindings
    /\ UNCHANGED <<store, saving, bindQueue, meant, events, reads, page, touched, made, faults>>
WriteBindings ==
    /\ bindRead # None
    /\ Stored([bindings |-> Bound(bindRead, Head(bindQueue))])
    /\ bindQueue' = Tail(bindQueue) /\ bindRead' = None
    /\ UNCHANGED <<saving, meant, reads, page, touched, made, faults>>

----------------------------------------------------------------------------
(* The reads.  An answer is what was stored at its own moment.             *)
Answered ==
    \E k \in waiting :
      /\ \/ got' = Over([x \in {k} |-> Answer(store, x)], got) /\ UNCHANGED faults
         \/ got' = Over([x \in {k} |-> Failed], got) /\ faults < MaxFaults /\ faults' = faults + 1
      /\ waiting' = waiting \ {k}
      /\ UNCHANGED <<store, writers, events, refreshes, page, touched, made>>
AnsweredRefresh ==
    \E r \in refreshes, k \in {"local", "sync"} :
      /\ k \notin DOMAIN r.got
      /\ refreshes' = (refreshes \ {r}) \cup {[r EXCEPT !.got = Over([x \in {k} |-> store[x]], @)]}
      /\ UNCHANGED <<store, writers, events, waiting, got, page, touched, made, faults>>

(* resolveCurrentWindow: the window, then what is bound to it.  A page in  *)
(* a popup window shows the state as it is stored.                         *)
Projected(p) ==
    IF p.window # "ready" THEN p
    ELSE [p EXCEPT !.active = p.bound, !.switch = IF @ \in {None, Own} THEN @ ELSE None]
ResolveWindow ==
    /\ page.window = "pending" /\ "window" \in DOMAIN got /\ "bindings" \notin DOMAIN got \cup waiting
    /\ \/ /\ got["window"] = "normal"
          /\ waiting' = waiting \cup AskedOf(Session) /\ got' = Over(KnownOf(store, Session), got)
          /\ page' = [page EXCEPT !.newBindings = None, !.newJobs = None]
       \/ /\ page' = [page EXCEPT !.window = "unavailable", !.loading = FALSE]
          /\ UNCHANGED <<waiting, got>>
    /\ UNCHANGED <<store, writers, events, refreshes, touched, made, faults>>
(* A value an event has brought since the read was asked for is the newer. *)
Newest(changed, answer) == IF changed # None THEN changed ELSE answer
WindowReady ==
    /\ page.window = "pending" /\ Session \subseteq DOMAIN got
    /\ LET bindings == Newest(page.newBindings, got["bindings"])
           jobs == Newest(page.newJobs, got["jobs"])
           ready == [page EXCEPT !.window = "ready", !.newBindings = None, !.newJobs = None, !.bound = bindings[Own], !.loading = jobs = TRUE]
       IN  page' = CASE got["bindings"] = Failed -> [page EXCEPT !.window = "unavailable", !.loading = FALSE]
                     [] "state" \in page.loaded -> Projected(ready)
                     [] OTHER -> ready
    /\ got' = [k \in DOMAIN got \ Session |-> got[k]]
    /\ UNCHANGED <<store, writers, events, waiting, refreshes, touched, made, faults>>

(* The first reads give way to what events have brought meanwhile.         *)
Loads(p, key, answers) == key \notin p.loaded /\ Failed \notin answers
InitLoaded ==
    /\ ~page.hydrated /\ page.window # "pending"
    /\ {"workspaces", "local", "sync", "state"} \subseteq DOMAIN got
    /\ LET w == Loads(page, "workspaces", {got["workspaces"]})
           s == Loads(page, "settings", {got["local"], got["sync"]})
           m == Loads(page, "state", {got["state"]})
           p == [page EXCEPT !.hydrated = TRUE,
                   !.loaded = @ \cup {k \in {"workspaces"} : w} \cup {k \in {"settings"} : s} \cup {k \in {"state"} : m},
                   !.workspaces = IF w THEN got["workspaces"] ELSE @,
                   !.settings = IF s THEN <<got["local"], got["sync"]>> ELSE @]
       IN  page' = IF m THEN Projected([p EXCEPT !.main = got["state"][1], !.switch = got["state"][2], !.active = Raw])
                   ELSE p
    /\ got' = <<>>
    /\ UNCHANGED <<store, writers, events, waiting, refreshes, touched, made, faults>>

----------------------------------------------------------------------------
(* A storage event, and the settings it makes the page read again.         *)
Shown(p, e) ==
    LET D == DOMAIN e
        b == IF "bindings" \notin D THEN p
             ELSE IF p.window # "ready" THEN [p EXCEPT !.newBindings = e.bindings]
             ELSE Projected([p EXCEPT !.bound = e.bindings[Own]])
        j == IF "jobs" \notin D THEN b
             ELSE IF p.window # "ready" THEN [b EXCEPT !.newJobs = e.jobs]
             ELSE [b EXCEPT !.loading = e.jobs]
        w == IF "workspaces" \notin D THEN j
             ELSE [j EXCEPT !.workspaces = e.workspaces, !.loaded = @ \cup {"workspaces"}]
        s == IF D \cap {"local", "sync"} = {} THEN w
             ELSE [w EXCEPT !.refresh = @ + 1, !.loaded = @ \cup {"settings"}]
    IN  IF D \cap {"main", "switch"} = {} THEN s
        ELSE Projected([s EXCEPT !.loaded = @ \cup {"state"},
                          !.main = IF "main" \in D THEN e.main ELSE @,
                          !.active = IF "main" \in D THEN Raw ELSE @,
                          !.switch = IF "switch" \in D THEN e.switch ELSE @])
Deliver ==
    /\ events # <<>> /\ events' = Tail(events)
    /\ page' = Shown(page, Head(events))
    /\ refreshes' = IF page'.refresh = page.refresh THEN refreshes
                    ELSE refreshes \cup {[generation |-> page'.refresh, got |-> <<>>]}
    /\ UNCHANGED <<store, writers, waiting, got, touched, made, faults>>

Refreshed ==
    \E r \in refreshes :
      /\ DOMAIN r.got = {"local", "sync"}
      /\ refreshes' = refreshes \ {r}
      /\ page' = IF r.generation # page.refresh THEN page
                 ELSE [page EXCEPT !.settings = <<r.got["local"], r.got["sync"]>>]
      /\ UNCHANGED <<store, writers, events, waiting, got, touched, made, faults>>

Next ==
    \/ SaveWorkspaces \/ Migrate \/ RemoveTags \/ SaveMain \/ SaveSwitch \/ SaveState \/ SaveJobs
    \/ SyncSettings \/ SaveSettings \/ SavePortable
    \/ UpdateBindings \/ ReadBindings \/ WriteBindings
    \/ Answered \/ AnsweredRefresh \/ ResolveWindow \/ WindowReady \/ InitLoaded
    \/ Deliver \/ Refreshed

Spec == Init /\ [][Next]_vars

----------------------------------------------------------------------------
(* What has been written and delivered: no write and no event is on its    *)
(* way and the page has read what it wanted to, without a failure.         *)
Quiet ==
    /\ saving = 0 /\ events = <<>> /\ refreshes = {} /\ page.hydrated /\ faults = 0
    /\ bindQueue = <<>>

(* However its first reads and the events have met, a page that has        *)
(* settled shows the stored list, both halves of the settings, the         *)
(* workspace of its own window and whether its tabs are being loaded       *)
(* (useWorkspaceData.ts 87-145 and 223-305).                               *)
PageShowsStorage ==
    Quiet =>
      /\ page.workspaces = Workspaces(store)
      /\ page.settings = <<store.local, store.sync>>
      /\ page.window = "ready" =>
           /\ page.active = store.bindings[Own]
           /\ page.loading = store.jobs

(* No update of the window bindings is lost to another one that read the   *)
(* map before it was written (updateWorkspaceWindowBindings).              *)
BindingsAreMeant == bindQueue = <<>> => store.bindings = meant

(* The notes and the switch a settled page shows are the stored ones.      *)
(* This does not hold: an event that changes one of the two keys before    *)
(* the first read is applied marks both of them as loaded.                 *)
StateIsShown ==
    Quiet =>
      /\ page.main = store.main
      /\ page.switch = (IF page.window = "ready" /\ store.switch = Other THEN None ELSE store.switch)
=============================================================================
