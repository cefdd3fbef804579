--------------------------- MODULE PluginRegistry ---------------------------
(***************************************************************************)
(* The plugins the control plane knows (plugin-runtime's PluginRegistry):  *)
(* those in files and those connected from the dashboard, which are rows,  *)
(* the reloads that put both into one map, and the choice of a plugin for  *)
(* a camera (plugin_for).                                                  *)
(*                                                                         *)
(* A reload asks every plugin what it is, one after the other.  The files  *)
(* replace the map in one assignment when all of them were asked; the rows *)
(* come back after it, each as it answers.                                 *)
(***************************************************************************)
EXTENDS Integers, FiniteSets

CONSTANTS
    Plugins,
    Filed,          \* plugins with a file in the plugin directory
    Described,      \* ... whose file says what they are
    Owner,          \* by plugin: the customer a row would offer it to, or nobody
    Reloads,        \* requests that may be reloading at once
    MaxOutages,     \* bound: times a plugin stops or starts answering
    MaxEdits        \* bound: rows saved or deleted, buttons pressed

ASSUME PluginAssumption ==
    /\ Described \subseteq Filed /\ Filed \subseteq Plugins
    /\ Plugins \subseteq DOMAIN Owner
    /\ MaxOutages \in Nat /\ MaxEdits \in Nat

VARIABLES
    answers,    \* plugins that answer
    rows,       \* plugin_registrations
    registry,   \* the map: what is registered
    reload,     \* by request: how far its reload is
    outages, edits,
    settled     \* history: the map was made by a reload that ran alone, from the
                \* rows as they are, with every plugin answering

pluginVars == <<answers, rows, registry, reload, outages, edits, settled>>

NoReload == [at |-> "none", rows |-> {}, ask |-> {}, loaded |-> {}]

\* main: load_dir, then a reload with the rows, before anything is served.
PluginInit ==
    /\ answers = Plugins
    /\ rows \in SUBSET Plugins
    /\ registry = Filed \cup rows
    /\ reload = [r \in Reloads |-> NoReload]
    /\ outages = 0
    /\ edits = 0
    /\ settled = TRUE

Reloading == {r \in Reloads : reload[r].at \in {"files", "rows"}}
AsksPlugins(r) == reload[r].at \in {"files", "rows"}

OutageChanges(p) ==
    /\ outages < MaxOutages
    /\ outages' = outages + 1
    /\ answers' = IF p \in answers THEN answers \ {p} ELSE answers \cup {p}
    /\ settled' = (settled /\ Reloading = {})
    /\ UNCHANGED <<rows, registry, reload, edits>>

Edit == edits < MaxEdits /\ edits' = edits + 1

-----------------------------------------------------------------------------
(* What begins a reload.                                                   *)

\* create_plugin_registration: described first, then written down.
ConnectPlugin(r, p) ==
    /\ reload[r].at = "none" /\ Edit
    /\ p \in answers
    /\ rows' = rows \cup {p}
    /\ reload' = [reload EXCEPT ![r].at = "edited"]
    /\ settled' = FALSE
    /\ UNCHANGED <<answers, registry, outages>>

\* delete_plugin_registration: a row that is not there ends the request.
DisconnectPlugin(r, p) ==
    /\ reload[r].at = "none" /\ Edit
    /\ p \in rows
    /\ rows' = rows \ {p}
    /\ reload' = [reload EXCEPT ![r].at = "edited"]
    /\ settled' = FALSE
    /\ UNCHANGED <<answers, registry, outages>>

\* plugins_reload
PressReload(r) ==
    /\ reload[r].at = "none" /\ Edit
    /\ reload' = [reload EXCEPT ![r].at = "edited"]
    /\ UNCHANGED <<answers, rows, registry, outages, settled>>

-----------------------------------------------------------------------------
(* reload_plugins, reload_with and reload.                                 *)

\* The rows are read before the first file is asked; alone in it so far or not.
BeginReload(r, stored) ==
    /\ reload' = [reload EXCEPT ![r] = [at |-> "files", rows |-> stored, ask |-> Filed, loaded |-> {}]]
    /\ settled' = (Reloading = {} /\ stored = rows /\ answers = Plugins)
    /\ UNCHANGED <<answers, rows, registry, outages, edits>>

\* Mutant: the map is emptied before the files are asked.
ReadRowsEmptying(r) ==
    /\ reload[r].at = "edited"
    /\ reload' = [reload EXCEPT ![r] = [at |-> "files", rows |-> rows, ask |-> Filed, loaded |-> {}]]
    /\ settled' = FALSE
    /\ registry' = {}
    /\ UNCHANGED <<answers, rows, outages, edits>>

ReadRows(r) == reload[r].at = "edited" /\ BeginReload(r, rows)

\* unwrap_or_default: a store that fails has no rows.
RowsUnreadable(r) ==
    /\ reload[r].at = "edited"
    /\ BeginReload(r, {})

\* entry_for: what answers is registered, and what does not only if its file says
\* what it is; a row never does.
Entry(p, fallback) == IF p \in answers \cup fallback THEN {p} ELSE {}

AskFile(r, p) ==
    /\ reload[r].at = "files" /\ p \in reload[r].ask
    /\ reload' = [reload EXCEPT ![r].ask = @ \ {p},
                                ![r].loaded = @ \cup Entry(p, Described)]
    /\ UNCHANGED <<answers, rows, registry, outages, edits, settled>>

\* The map is what the files are.
FilesLoaded(r) ==
    /\ reload[r].at = "files" /\ reload[r].ask = {}
    /\ registry' = reload[r].loaded
    /\ reload' = [reload EXCEPT ![r].at = "rows", ![r].ask = reload[r].rows]
    /\ UNCHANGED <<answers, rows, outages, edits, settled>>

AskRow(r, p) ==
    /\ reload[r].at = "rows" /\ p \in reload[r].ask
    /\ registry' = registry \cup Entry(p, {})
    /\ reload' = [reload EXCEPT ![r].ask = @ \ {p}]
    /\ UNCHANGED <<answers, rows, outages, edits, settled>>

ReloadEnds(r) ==
    /\ reload[r].at = "rows" /\ reload[r].ask = {}
    /\ reload' = [reload EXCEPT ![r] = NoReload]
    /\ UNCHANGED <<answers, rows, registry, outages, edits, settled>>

\* The client goes away: the handler ends where it waits for a plugin.
ReloadDropped(r) ==
    /\ AsksPlugins(r)
    /\ reload' = [reload EXCEPT ![r] = NoReload]
    /\ settled' = FALSE
    /\ UNCHANGED <<answers, rows, registry, outages, edits>>

-----------------------------------------------------------------------------
(* What the map is asked.                                                  *)

\* is_registered, then the call: no such plugin, or whatever it answers.
CallAnswer(p) ==
    IF p \notin registry THEN "not found"
    ELSE IF p \in answers THEN "ok" ELSE "bad gateway"

\* plugin_for: a plugin offered to the customer the camera belongs to, if it is
\* registered, and the default otherwise.
PluginFor(customer) ==
    LET scoped == {p \in rows : Owner[p] = customer}
    IN  IF scoped \cap registry = {} THEN {"default"} ELSE scoped \cap registry

-----------------------------------------------------------------------------

PluginNext ==
    \/ \E p \in Plugins : OutageChanges(p)
    \/ \E r \in Reloads :
          \/ \E p \in Plugins :
                ConnectPlugin(r, p) \/ DisconnectPlugin(r, p) \/ AskFile(r, p) \/ AskRow(r, p)
          \/ PressReload(r) \/ ReadRows(r) \/ RowsUnreadable(r)
          \/ FilesLoaded(r) \/ ReloadEnds(r) \/ ReloadDropped(r)

PluginSpec == PluginInit /\ [][PluginNext]_pluginVars

-----------------------------------------------------------------------------
\* Every variable keeps its type.
PluginTypeOK ==
    /\ answers \subseteq Plugins /\ rows \subseteq Plugins /\ registry \subseteq Plugins
    /\ \A r \in Reloads : reload[r].ask \subseteq Plugins /\ reload[r].loaded \subseteq Filed
    /\ settled \in BOOLEAN

\* Files are the bootstrap: a plugin whose file says what it is is registered at
\* every moment, whatever is reloaded, deleted or not answering (reload, entry_for).
FiledStays == Described \subseteq registry

\* After a reload that ran alone and was answered by everybody the map is the files
\* and the rows: what was disconnected is gone, what was connected is called, and a
\* customer's camera uses the customer's plugin.
RegistryIsWhatIsStored ==
    settled /\ Reloading = {} =>
        /\ registry = Filed \cup rows
        /\ \A p \in rows : CallAnswer(p) # "not found" /\ p \in PluginFor(Owner[p])
        /\ \A p \in Plugins \ (Filed \cup rows) : CallAnswer(p) = "not found"

\* The comment of plugin_for: a camera belonging to that customer uses their plugin.
CustomersUseTheirOwn == \A p \in rows \cap answers : PluginFor(Owner[p]) # {"default"}
=============================================================================
