-------------------------- MODULE AlgoPluginManager --------------------------
(***************************************************************************)
(* AlgoPluginManager: ranking plugins in two buffers.  LoadPlugins, run by *)
(* Initialize and then by PeriodicalReloadingThread, fills the buffer that *)
(* current_index_ does not name and then swaps; Select, run by the threads *)
(* that serve queries, reads the other one.  Nothing locks.                *)
(*                                                                         *)
(* A configuration is a record: num (num_buckets, or NULL if the file has  *)
(* no such line), default (default_bucket) and items, the sequence of      *)
(* [bucket, ok] that the buckets line lists; ok says that the bucket id    *)
(* parses and that the plugin's library can be loaded and initialized.     *)
(* Every load makes new plugin objects: a plugin is the configuration and  *)
(* the item it was made from.                                              *)
(***************************************************************************)
EXTENDS Integers, Sequences

CONSTANTS
  Threads,   \* the threads that call Select
  Ids,       \* hashes of user ids
  Configs,   \* what the config file may hold
  Garbage,   \* what an uninitialized int may hold
  NULL,
  Unreadable

Buffers == {0, 1}

ASSUME ConstantsAssumption ==
  /\ Ids \subseteq Nat
  /\ Garbage \subseteq Nat /\ Garbage # {}
  /\ Unreadable \notin Configs /\ NULL \notin Configs
  /\ \A c \in Configs :
       /\ c.num = NULL \/ c.num \in Nat \ {0}
       /\ c.default \in Nat
       /\ c.items \in Seq([bucket : Nat, ok : BOOLEAN])

VARIABLES
  file,            \* what the config file holds
  up,              \* Initialize has returned
  current_index,
  plugins,         \* per buffer: bucket id -> plugin
  default_plugin,  \* per buffer
  num_plugins,     \* per buffer
  lpc,             \* LoadPlugins: where it is,
  config,          \*   the configuration it read,
  pos,             \*   and how many of its items it has loaded
  spc,             \* Select, per thread: where it is,
  id,              \*   its argument,
  index,           \*   the locals index
  mod,             \*   and mod,
  result,          \*   what it returns
  served,          \* history: the configuration last swapped in
  saw,             \* history: served when Select read current_index_
  swapped,         \* history: buffers were swapped since then
  overrun          \* history: LoadPlugins wrote the buffer Select reads

buffers == <<plugins, default_plugin, num_plugins>>
loader  == <<lpc, config, pos>>
select  == <<spc, id, index, mod, result>>
seen    == <<saw, swapped, overrun>>
vars    == <<file, up, current_index, buffers, loader, select, served, seen>>

\* The plugin made from item i of configuration c.
Plugin(c, i) == <<c, i>>
Plugins == UNION {{Plugin(c, i) : i \in 1 .. Len(c.items)} : c \in Configs}

Empty == [b \in {} |-> NULL]

-----------------------------------------------------------------------------
(* LoadPlugins, on the buffer that is not current.                         *)

\* Mutants: the buffer Select reads; one more each time.
WriteCurrent == current_index
WriteNext    == current_index + 1

\* index = 1 - current_index_
WriteBuffer == 1 - current_index

EditFile(c) ==
  /\ file' = c
  /\ UNCHANGED <<up, current_index, buffers, loader, select, served, seen>>

\* Mutant: the reloading thread ends, the process does not.
LoadFailsForGood ==
  /\ lpc' = "left" /\ config' = NULL /\ pos' = 0
  /\ UNCHANGED num_plugins

\* return false: the reloading thread sleeps again, but in Initialize it ends the
\* process, through the CHECK in server.cpp.
LoadFails ==
  /\ lpc' = IF up THEN "sleep" ELSE "ended"
  /\ config' = NULL /\ pos' = 0
  /\ UNCHANGED num_plugins

\* Somebody starts the server again: its numbers are not initialized.
Restart ==
  /\ lpc = "ended"
  /\ lpc' = "sleep"
  /\ plugins' = [b \in Buffers |-> Empty]
  /\ default_plugin' = [b \in Buffers |-> NULL]
  /\ num_plugins' \in [Buffers -> Garbage]
  /\ UNCHANGED <<file, up, current_index, config, pos, select, served, seen>>

\* The write buffer is cleared and the file is read and parsed: notify stores
\* num_buckets, if it is there, into num_plugins_.
OpenConfig ==
  /\ lpc = "sleep"
  /\ plugins' = [plugins EXCEPT ![WriteBuffer] = Empty]
  /\ overrun' = [s \in Threads |->
                   overrun[s] \/ (spc[s] # "idle" /\ index[s] = WriteBuffer)]
  /\ \/ /\ file = Unreadable
        /\ LoadFails
     \/ /\ file # Unreadable
        /\ lpc' = "buckets" /\ config' = file /\ pos' = 0
        /\ num_plugins' = IF file.num = NULL THEN num_plugins
                          ELSE [num_plugins EXCEPT ![WriteBuffer] = file.num]
  /\ UNCHANGED <<file, up, current_index, default_plugin, select, served, saw, swapped>>

\* m[b] = p
Put(m, b, p) == [x \in DOMAIN m \union {b} |-> IF x = b THEN p ELSE m[x]]

\* One turn of the loop over the bucket items; an item that is not in order
\* ends the load with what was loaded so far left in the buffer.
LoadBucket ==
  /\ lpc = "buckets"
  /\ pos < Len(config.items)
  /\ LET item == config.items[pos + 1]
     IN  \/ /\ item.ok
            /\ plugins' = [plugins EXCEPT ![WriteBuffer] =
                             Put(@, item.bucket, Plugin(config, pos + 1))]
            /\ pos' = pos + 1
            /\ UNCHANGED <<num_plugins, lpc, config>>
         \/ /\ ~item.ok
            /\ LoadFails
            /\ UNCHANGED plugins
  /\ UNCHANGED <<file, up, current_index, default_plugin, select, served, seen>>

\* default_plugin_[index] = plugins_[index][default_bucket]: operator[] inserts
\* a null pointer for a bucket that is not there.
SetDefault ==
  /\ lpc = "buckets"
  /\ pos = Len(config.items)
  /\ LET m == plugins[WriteBuffer]
         p == IF config.default \in DOMAIN m THEN m[config.default] ELSE NULL
     IN  /\ plugins' = [plugins EXCEPT ![WriteBuffer] = Put(m, config.default, p)]
         /\ default_plugin' = [default_plugin EXCEPT ![WriteBuffer] = p]
  /\ lpc' = "swap"
  /\ UNCHANGED <<file, up, current_index, num_plugins, config, pos, select, served,
                 seen>>

\* current_index_ = index; return true
Swap ==
  /\ lpc = "swap"
  /\ current_index' = WriteBuffer
  /\ up' = TRUE
  /\ lpc' = "sleep" /\ config' = NULL /\ pos' = 0
  /\ served' = config
  /\ swapped' = [s \in Threads |-> swapped[s] \/ spc[s] # "idle"]
  /\ UNCHANGED <<file, buffers, select, saw, overrun>>

LoadPlugins == OpenConfig \/ LoadBucket \/ SetDefault \/ Swap

-----------------------------------------------------------------------------
(* Select.                                                                 *)

\* index = current_index_
SelectIndex(s, u) ==
  /\ up
  /\ spc[s] = "idle"
  /\ id' = [id EXCEPT ![s] = u]
  /\ index' = [index EXCEPT ![s] = current_index]
  /\ saw' = [saw EXCEPT ![s] = served]
  /\ spc' = [spc EXCEPT ![s] = "mod"]
  /\ UNCHANGED <<file, up, current_index, buffers, loader, mod, result, served,
                 swapped, overrun>>

\* mod = id % num_plugins_[index]; dividing by zero ends the process.
SelectMod(s) ==
  /\ spc[s] = "mod"
  /\ num_plugins[index[s]] > 0
  /\ mod' = [mod EXCEPT ![s] = id[s] % num_plugins[index[s]]]
  /\ spc' = [spc EXCEPT ![s] = "find"]
  /\ UNCHANGED <<file, up, current_index, buffers, loader, id, index, result,
                 served, seen>>

\* Mutant: the default of the buffer that is current by now.
LookupLate(b, m) ==
  IF m \in DOMAIN plugins[b] THEN plugins[b][m] ELSE default_plugin[current_index]

\* What plugins_[index].find(m) leads to.
Lookup(b, m) == IF m \in DOMAIN plugins[b] THEN plugins[b][m] ELSE default_plugin[b]

\* The plugin of the bucket, or the default.  Beside a load of the same buffer
\* the outcome is undefined.
SelectFind(s) ==
  /\ spc[s] = "find"
  /\ \E p \in IF overrun[s] THEN Plugins \union {NULL} ELSE {Lookup(index[s], mod[s])} :
       result' = [result EXCEPT ![s] = p]
  /\ spc' = [spc EXCEPT ![s] = "done"]
  /\ UNCHANGED <<file, up, current_index, buffers, loader, id, index, mod, served,
                 seen>>

\* The caller has used the plugin.
SelectReturn(s) ==
  /\ spc[s] = "done"
  /\ spc' = [spc EXCEPT ![s] = "idle"]
  /\ id' = [id EXCEPT ![s] = 0]
  /\ index' = [index EXCEPT ![s] = 0]
  /\ mod' = [mod EXCEPT ![s] = 0]
  /\ result' = [result EXCEPT ![s] = NULL]
  /\ saw' = [saw EXCEPT ![s] = NULL]
  /\ swapped' = [swapped EXCEPT ![s] = FALSE]
  /\ overrun' = [overrun EXCEPT ![s] = FALSE]
  /\ UNCHANGED <<file, up, current_index, buffers, loader, served>>

-----------------------------------------------------------------------------
Init ==
  /\ file \in Configs \union {Unreadable}
  /\ up = FALSE
  /\ current_index = 0
  /\ plugins = [b \in Buffers |-> Empty]
  /\ default_plugin = [b \in Buffers |-> NULL]
  /\ num_plugins \in [Buffers -> Garbage]
  /\ lpc = "sleep" /\ config = NULL /\ pos = 0
  /\ spc = [s \in Threads |-> "idle"]
  /\ id = [s \in Threads |-> 0]
  /\ index = [s \in Threads |-> 0]
  /\ mod = [s \in Threads |-> 0]
  /\ result = [s \in Threads |-> NULL]
  /\ served = NULL
  /\ saw = [s \in Threads |-> NULL]
  /\ swapped = [s \in Threads |-> FALSE]
  /\ overrun = [s \in Threads |-> FALSE]

Next ==
  \/ \E c \in Configs \union {Unreadable} : EditFile(c)
  \/ LoadPlugins
  \/ Restart
  \/ \E s \in Threads :
       (\E u \in Ids : SelectIndex(s, u)) \/ SelectMod(s) \/ SelectFind(s)
       \/ SelectReturn(s)

Spec == Init /\ [][Next]_vars

\* Initialize and the reloading thread run; nobody need start an ended server.
FairSpec == Spec /\ WF_vars(LoadPlugins)

-----------------------------------------------------------------------------
TypeOK ==
  /\ file \in Configs \union {Unreadable}
  /\ up \in BOOLEAN
  /\ current_index \in Buffers
  /\ DOMAIN plugins = Buffers
  /\ \A b \in Buffers :
       /\ DOMAIN plugins[b] \subseteq Nat
       /\ \A m \in DOMAIN plugins[b] : plugins[b][m] \in Plugins \union {NULL}
  /\ default_plugin \in [Buffers -> Plugins \union {NULL}]
  /\ num_plugins \in [Buffers -> Nat]
  /\ lpc \in {"sleep", "buckets", "swap", "ended"}
  /\ config \in Configs \union {NULL}
  /\ pos \in Nat
  /\ spc \in [Threads -> {"idle", "mod", "find", "done"}]
  /\ id \in [Threads -> Nat] /\ mod \in [Threads -> Nat]
  /\ index \in [Threads -> Buffers]
  /\ result \in [Threads -> Plugins \union {NULL}]
  /\ served \in Configs \union {NULL}
  /\ saw \in [Threads -> Configs \union {NULL}]
  /\ swapped \in [Threads -> BOOLEAN]
  /\ overrun \in [Threads -> BOOLEAN]

\* "The default bucket id must be defined in the [buckets] section", and the
\* number of buckets must be given.
WellFormed(c) ==
  /\ c.num # NULL
  /\ \E i \in 1 .. Len(c.items) : c.items[i].bucket = c.default

\* The plugin that c lists for bucket b, the last one if there are several.
Listed(c, b) == {i \in 1 .. Len(c.items) : c.items[i].bucket = b}
Last(S)      == CHOOSE i \in S : \A j \in S : j <= i

\* What a configuration means: the plugin of the bucket an id falls into, "all
\* buckets which are not included ... will be assigned to use the same
\* configuration as the default bucket".
Meaning(c, u) ==
  LET b == u % c.num
  IN  Plugin(c, Last(IF Listed(c, b) # {} THEN Listed(c, b) ELSE Listed(c, c.default)))

\* Select answers from one whole configuration, the one that was served when it
\* began, however loads and edits of the file fall between its steps: never from
\* half of a load, from one that failed, or from two buffers.  It must return
\* before the load after the next swap begins.
SelectsFromOneConfig ==
  \A s \in Threads :
    spc[s] = "done" /\ ~overrun[s] /\ WellFormed(saw[s]) =>
      result[s] = Meaning(saw[s], id[s])

\* "separate read/write instance": LoadPlugins writes the buffer a Select reads
\* only if the buffers were swapped after that Select read current_index_.
OverrunOnlyAfterSwap == \A s \in Threads : overrun[s] => swapped[s]

\* What a Select that nothing disturbs returns for every id now.
Answers ==
  [u \in Ids |-> LET n == num_plugins[current_index]
                 IN  IF n = 0 THEN NULL ELSE Lookup(current_index, u % n)]

\* Until it swaps, and if it fails, a load changes no answer.
AnswersChangeBySwapOnly ==
  [][up /\ current_index' = current_index => Answers' = Answers]_vars

\* Every item of c can be loaded.
Loadable(c) == \A i \in 1 .. Len(c.items) : c.items[i].ok

\* A configuration that can be loaded, and that the file keeps, is served in the
\* end, and no failed load before it stands in its way, unless that was the first
\* load and nobody starts the server again.
ConfigTakesEffect ==
  \A c \in Configs :
    Loadable(c) /\ <>[](file = c) => <>[](served = c \/ lpc = "ended")
=============================================================================
