--------------------------- MODULE AgentCommands ---------------------------
(***************************************************************************)
(* From a message of an agent to an operation of the extension: the parser *)
(* of the protocol (agentControlProtocol.ts), the executors                *)
(* (agentControlCommands.ts) and the bridge to the message handlers, which *)
(* test the operation once more (agentControlInternalBridge.ts).           *)
(*                                                                         *)
(* A payload maps the names of its fields to values, or is None.  Bad is   *)
(* any value that fails the test of the field it stands in: a wrong type,  *)
(* an empty or an overlong string, a negative number.                      *)
(***************************************************************************)
EXTENDS Naturals, Sequences, SequencesExt, Lists, TLC

CONSTANTS Ids, Urls, Bad, None

Tab(url, excluded) == [url |-> url, excluded |-> excluded]

(* What a command requires and what it allows besides. *)
Plain == {"getState", "openHome", "openSettings", "openShortcuts"}

AboutWorkspace ==
    [getWorkspace      |-> <<{"workspaceId"}, {}>>,
     searchWorkspaces  |-> <<{"query"}, {}>>,
     createWorkspace   |-> <<{"name"}, {}>>,
     switchWorkspace   |-> <<{"workspaceId"}, {}>>,
     renameWorkspace   |-> <<{"workspaceId", "name"}, {}>>,
     setWorkspaceColor |-> <<{"workspaceId", "color"}, {}>>,
     setWorkspaceEmoji |-> <<{"workspaceId", "emoji"}, {}>>,
     trashWorkspace    |-> <<{"workspaceId"}, {}>>,
     restoreWorkspace  |-> <<{"workspaceId"}, {}>>,
     deleteWorkspace   |-> <<{"workspaceId", "confirm"}, {}>>,
     emptyTrash        |-> <<{"confirm"}, {}>>,
     setWorkspaceNote  |-> <<{"workspaceId", "note"}, {}>>]

AboutTabs ==
    [openWorkspaceTab         |-> <<{"workspaceId", "tab"}, {}>>,
     captureWorkspaceTabs     |-> <<{"workspaceId"}, {"skipHistory"}>>,
     setTabExcluded           |-> <<{"workspaceId", "tabIndexOrUrl", "excluded"}, {"expectedTabsRevision"}>>,
     removeWorkspaceTabs      |-> <<{"workspaceId", "tabIndexes", "expectedTabsRevision"}, {}>>,
     moveWorkspaceTabs        |-> <<{"sourceId", "targetId", "tabIndexes", "expectedTabsRevision"}, {}>>,
     replaceWorkspaceTabs     |-> <<{"workspaceId", "tabs"}, {"skipHistory"}>>,
     createWorkspaceSnapshot  |-> <<{"workspaceId"}, {}>>,
     restoreWorkspaceSnapshot |-> <<{"workspaceId", "snapshotId"}, {}>>]

Settings ==
    [theme |-> {"dark", "light", "system"}, language |-> {"zh-CN", "en-US"},
     accentColor |-> {"#rrggbb"}, workspaceSort |-> {"lastUsed", "created"}]

Schema == Over(AboutWorkspace, Over(AboutTabs, [updateSetting |-> <<{"key", "value"}, {}>>]))
Commands == Plain \cup DOMAIN Schema

HasExactKeys(p, required, optional) ==
    required \subseteq DOMAIN p /\ DOMAIN p \subseteq required \cup optional

SafeTabs(tabs) == \A t \in ToSet(tabs) : t.url \in Urls
IsIndex(locator) == "index" \in DOMAIN locator

AcceptsExclusion_Unversioned(p) == p.tabIndexOrUrl # Bad

(* An index needs the revision it was read at; a URL does not. *)
AcceptsExclusion(p) == IsIndex(p.tabIndexOrUrl) => "expectedTabsRevision" \in DOMAIN p

AcceptsSetting(p) == p.key \in DOMAIN Settings /\ p.value \in Settings[p.key]

(* parseAgentCommandRequest *)
Accepts(c, p) ==
    IF c \in Plain THEN p = None
    ELSE /\ p # None
         /\ HasExactKeys(p, Schema[c][1], Schema[c][2])
         /\ \A f \in DOMAIN p : p[f] # Bad
         /\ "confirm" \in DOMAIN p => p.confirm
         /\ "tabs" \in DOMAIN p => SafeTabs(p.tabs)
         /\ "tab" \in DOMAIN p => SafeTabs(<<p.tab>>)
         /\ c = "moveWorkspaceTabs" => p.sourceId # p.targetId
         /\ c = "setTabExcluded" => AcceptsExclusion(p)
         /\ c = "updateSetting" => AcceptsSetting(p)

-----------------------------------------------------------------------------
(* createExecutors: what the extension is asked to do.  A field that the   *)
(* request lacks is undefined and is lost on the way: it is left out.      *)

Only(p, S) == [f \in S \cap DOMAIN p |-> p[f]]
Skips(p) == "skipHistory" \in DOMAIN p /\ p.skipHistory

Operation(c, p) ==
    CASE c \in Plain \cup {"getWorkspace", "searchWorkspaces", "switchWorkspace"} ->
             [handler |-> "none", kind |-> c]
      [] c = "createWorkspace" -> [handler |-> "create", kind |-> "create", name |-> p.name]
      [] c = "renameWorkspace" ->
             [handler |-> "apply", kind |-> "rename", id |-> p.workspaceId, name |-> p.name]
      [] c = "setWorkspaceColor" ->
             [handler |-> "apply", kind |-> "recolor", id |-> p.workspaceId, color |-> p.color]
      [] c = "setWorkspaceEmoji" ->
             [handler |-> "apply", kind |-> "emoji", id |-> p.workspaceId, emoji |-> p.emoji]
      [] c = "trashWorkspace" -> [handler |-> "apply", kind |-> "trash", id |-> p.workspaceId]
      [] c = "restoreWorkspace" -> [handler |-> "apply", kind |-> "restore", id |-> p.workspaceId]
      [] c = "deleteWorkspace" -> [handler |-> "apply", kind |-> "delete", id |-> p.workspaceId]
      [] c = "emptyTrash" -> [handler |-> "apply", kind |-> "empty-trash"]
      [] c = "setWorkspaceNote" ->
             [handler |-> "state", kind |-> "notes", id |-> p.workspaceId, note |-> p.note]
      [] c = "openWorkspaceTab" ->
             Over([handler |-> "window", kind |-> "open-tab"],
                  Only(p, {"workspaceId", "tab"}))
      [] c = "captureWorkspaceTabs" ->
             Over([handler |-> "window", kind |-> "capture-tabs", skip |-> Skips(p)],
                  Only(p, {"workspaceId"}))
      [] c = "setTabExcluded" ->
             Over([handler |-> "apply", kind |-> "exclude-tab"],
                  Only(p, {"workspaceId", "tabIndexOrUrl", "excluded", "expectedTabsRevision"}))
      [] c = "removeWorkspaceTabs" ->
             Over([handler |-> "apply", kind |-> "remove-tab-indexes"],
                  Only(p, {"workspaceId", "tabIndexes", "expectedTabsRevision"}))
      [] c = "moveWorkspaceTabs" ->
             Over([handler |-> "apply", kind |-> "move-tabs"],
                  Only(p, {"sourceId", "targetId", "tabIndexes", "expectedTabsRevision"}))
      [] c = "replaceWorkspaceTabs" ->
             Over([handler |-> "apply", kind |-> "set-tabs", skip |-> Skips(p)],
                  Only(p, {"workspaceId", "tabs"}))
      [] c = "createWorkspaceSnapshot" ->
             [handler |-> "apply", kind |-> "snapshot", workspaceId |-> p.workspaceId]
      [] c = "restoreWorkspaceSnapshot" ->
             Over([handler |-> "apply", kind |-> "restore-snapshot"],
                  Only(p, {"workspaceId", "snapshotId"}))
      [] c = "updateSetting" ->
             [handler |-> "settings", kind |-> "setting", key |-> p.key, value |-> p.value]

-----------------------------------------------------------------------------
(* The tests of the handlers: what makes an operation an error or is       *)
(* quietly left out, for a request of any client.                          *)

Needed(kind) ==
    CASE kind \in {"rename"} -> {"id", "name"}
      [] kind = "recolor" -> {"id", "color"}
      [] kind = "emoji" -> {"id", "emoji"}
      [] kind \in {"remove", "trash", "restore", "delete"} -> {"id"}
      [] kind = "empty-trash" -> {}
      [] kind = "exclude-tab" -> {"workspaceId", "tabIndexOrUrl", "excluded"}
      [] kind = "move-tabs" -> {"sourceId", "targetId", "tabIndexes"}
      [] kind = "remove-tab" -> {"workspaceId", "tabIndexOrUrl"}
      [] kind = "remove-tab-indexes" -> {"workspaceId", "tabIndexes"}
      [] kind = "restore-snapshot" -> {"workspaceId", "snapshotId"}
      [] kind = "snapshot" -> {"workspaceId"}
      [] kind = "set-tabs" -> {"workspaceId", "tabs"}

AppliesWell(o) ==
    /\ \A f \in Needed(o.kind) : f \in DOMAIN o /\ o[f] # Bad
    /\ o.kind = "move-tabs" => o.sourceId # o.targetId
    /\ o.kind = "exclude-tab" /\ IsIndex(o.tabIndexOrUrl) => "expectedTabsRevision" \in DOMAIN o
    /\ "expectedTabsRevision" \in DOMAIN o => o.expectedTabsRevision # Bad

PatchesWell(o) == o.kind = "notes" /\ o.note # Bad
SetsWell(o) ==
    \/ o.key \in DOMAIN Settings /\ o.value \in Settings[o.key]
    \/ o.key \in {"devMode", "agentControlEnabled"} /\ o.value \in BOOLEAN
ActsWell(o) ==
    /\ "workspaceId" \in DOMAIN o /\ o.workspaceId # Bad
    /\ o.kind = "open-tab" => "tab" \in DOMAIN o /\ SafeTabs(<<o.tab>>)

Handled(o) ==
    CASE o.handler = "apply" -> AppliesWell(o)
      [] o.handler = "state" -> PatchesWell(o)
      [] o.handler = "settings" -> SetsWell(o)
      [] o.handler = "window" -> ActsWell(o)
      [] OTHER -> TRUE
=============================================================================
