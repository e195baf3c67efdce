----------------------- MODULE AlgoPluginManagerProofs -----------------------
(***************************************************************************)
(* Proofs about AlgoPluginManager, for any configurations and threads.     *)
(* The inductive invariant says what each of the two buffers holds: the    *)
(* write buffer the items loaded so far, the current one the whole of the  *)
(* configuration served, and the one a Select reads that of the time when  *)
(* it began, unless LoadPlugins has written to it since.                   *)
(***************************************************************************)
EXTENDS AlgoPluginManager, TLAPS

\* The items of c for bucket b among the first k.
UpTo(c, b, k) == {i \in 1 .. k : c.items[i].bucket = b}

\* The map m holds the first k items of c.
HoldsItems(m, c, k) ==
  /\ DOMAIN m = {c.items[i].bucket : i \in 1 .. k}
  /\ \A b \in DOMAIN m : m[b] = Plugin(c, Last(UpTo(c, b, k)))

\* A buffer with map m, default d and number n stands for c.
Serves(m, d, n, c) ==
  WellFormed(c) =>
    /\ n = c.num
    /\ HoldsItems(m, c, Len(c.items))
    /\ d = Plugin(c, Last(Listed(c, c.default)))

BufferServes(b, c) == Serves(plugins[b], default_plugin[b], num_plugins[b], c)

LoaderInv ==
  /\ lpc = "ended" => ~up
  /\ lpc \notin {"sleep", "ended"} =>
       /\ config \in Configs
       /\ pos \in 0 .. Len(config.items)
       /\ config.num # NULL => num_plugins[WriteBuffer] = config.num
       /\ lpc = "buckets" => HoldsItems(plugins[WriteBuffer], config, pos)
       /\ lpc = "swap" => BufferServes(WriteBuffer, config)

ServedInv == up => served \in Configs /\ BufferServes(current_index, served)

\* What a Select has computed so far.
Computed(s) ==
  WellFormed(saw[s]) =>
    /\ spc[s] = "find" => mod[s] = id[s] % saw[s].num
    /\ spc[s] = "done" => result[s] = Meaning(saw[s], id[s])

SelectOK(s) ==
  /\ overrun[s] => swapped[s]
  /\ spc[s] # "idle" =>
       /\ up
       /\ saw[s] \in Configs
       /\ ~swapped[s] => index[s] = current_index
       /\ ~overrun[s] =>
            /\ lpc # "sleep" => index[s] = current_index
            /\ BufferServes(index[s], saw[s])
            /\ Computed(s)

SelectInv == \A s \in Threads : SelectOK(s)

IInv == TypeOK /\ LoaderInv /\ ServedInv /\ SelectInv

-----------------------------------------------------------------------------
(* Facts about configurations.                                             *)

\* Elements of a sequence.
LEMMA ElementType ==
  ASSUME NEW T, NEW q \in Seq(T), NEW i \in 1 .. Len(q)
  PROVE  Len(q) \in Nat /\ q[i] \in T
OBVIOUS

\* Items are numbered, and have a bucket.
LEMMA ItemType ==
  ASSUME NEW c \in Configs, NEW i \in 1 .. Len(c.items)
  PROVE  /\ c.items \in Seq([bucket : Nat, ok : BOOLEAN])
         /\ Len(c.items) \in Nat
         /\ c.items[i] \in [bucket : Nat, ok : BOOLEAN]
         /\ c.items[i].bucket \in Nat
<1>1. c.items \in Seq([bucket : Nat, ok : BOOLEAN])
  BY ConstantsAssumption, Zenon
<1>2. Len(c.items) \in Nat /\ c.items[i] \in [bucket : Nat, ok : BOOLEAN]
  BY <1>1, ElementType, Zenon
<1>3. c.items[i].bucket \in Nat
  BY <1>2, Zenon
<1> QED BY <1>1, <1>2, <1>3, Zenon

\* The greatest number of a set that has one.
LEMMA LastIs ==
  ASSUME NEW S \in SUBSET Int, NEW i \in S, \A j \in S : j <= i
  PROVE  Last(S) = i
<1>1. \A x \in S : (\A j \in S : j <= x) => x = i
  OBVIOUS
<1> QED BY <1>1, Zenon DEF Last

\* plugins_[index][bucket_id] = this_plugin adds the next item.
LEMMA PutHolds ==
  ASSUME NEW c \in Configs, NEW k \in Nat, k < Len(c.items), NEW m, HoldsItems(m, c, k)
  PROVE  HoldsItems(Put(m, c.items[k + 1].bucket, Plugin(c, k + 1)), c, k + 1)
<1> DEFINE b == c.items[k + 1].bucket
           n == Put(m, b, Plugin(c, k + 1))
<1>0. Len(c.items) \in Nat /\ 1 .. k + 1 = (1 .. k) \union {k + 1} /\ k + 1 \in Nat
  BY ConstantsAssumption
<1>1. DOMAIN n = {c.items[i].bucket : i \in 1 .. k + 1}
  BY <1>0, Zenon DEF Put, HoldsItems
<1>2. n[b] = Plugin(c, k + 1)
  BY Zenon DEF Put
<1>3. Last(UpTo(c, b, k + 1)) = k + 1
  <2>1. /\ UpTo(c, b, k + 1) \in SUBSET Int
        /\ k + 1 \in UpTo(c, b, k + 1)
        /\ \A j \in UpTo(c, b, k + 1) : j <= k + 1
    BY <1>0 DEF UpTo
  <2> QED BY <2>1, LastIs, Zenon
<1>4. \A x \in DOMAIN n : x # b => x \in DOMAIN m /\ n[x] = m[x] /\ UpTo(c, x, k + 1) = UpTo(c, x, k)
  <2> SUFFICES ASSUME NEW x \in DOMAIN n, x # b
               PROVE  x \in DOMAIN m /\ n[x] = m[x] /\ UpTo(c, x, k + 1) = UpTo(c, x, k)
    BY Zenon
  <2>1. x \in DOMAIN m /\ n[x] = m[x]
    BY Zenon DEF Put
  <2>2. UpTo(c, x, k + 1) = UpTo(c, x, k)
    BY <1>0, Zenon DEF UpTo
  <2> QED BY <2>1, <2>2, Zenon
<1>5. \A x \in DOMAIN n : n[x] = Plugin(c, Last(UpTo(c, x, k + 1)))
  <2> SUFFICES ASSUME NEW x \in DOMAIN n PROVE n[x] = Plugin(c, Last(UpTo(c, x, k + 1)))
    BY Zenon
  <2>1. CASE x = b BY <2>1, <1>2, <1>3, Zenon
  <2>2. CASE x # b BY <2>2, <1>4, Zenon DEF HoldsItems
  <2> QED BY <2>1, <2>2, Zenon
<1> QED BY <1>1, <1>5, Zenon DEF HoldsItems

\* The default bucket of a well-formed configuration is in the map when all
\* items are, so that operator[] inserts nothing.
LEMMA DefaultFound ==
  ASSUME NEW c \in Configs, WellFormed(c), NEW m, HoldsItems(m, c, Len(c.items))
  PROVE  /\ c.default \in DOMAIN m
         /\ m[c.default] = Plugin(c, Last(Listed(c, c.default)))
         /\ HoldsItems(Put(m, c.default, m[c.default]), c, Len(c.items))
<1>1. c.default \in DOMAIN m
  BY Zenon DEF WellFormed, HoldsItems
<1>2. m[c.default] = Plugin(c, Last(Listed(c, c.default)))
  BY <1>1, Zenon DEF HoldsItems, UpTo, Listed
<1> DEFINE n == Put(m, c.default, m[c.default])
<1>3. DOMAIN n = DOMAIN m
  BY <1>1, Zenon DEF Put
<1>4. \A x \in DOMAIN n : n[x] = m[x]
  BY <1>1, Zenon DEF Put
<1>5. HoldsItems(n, c, Len(c.items))
  BY <1>3, <1>4, Zenon DEF HoldsItems
<1> QED BY <1>1, <1>2, <1>5, Zenon

\* find(mod) in a buffer that stands for c gives what c means.
LEMMA FindsMeaning ==
  ASSUME NEW c \in Configs, NEW u \in Nat, WellFormed(c), NEW m, NEW d, NEW n, Serves(m, d, n, c)
  PROVE  (IF u % n \in DOMAIN m THEN m[u % n] ELSE d) = Meaning(c, u)
<1> DEFINE b == u % c.num
<1>1. n = c.num /\ HoldsItems(m, c, Len(c.items)) /\ d = Plugin(c, Last(Listed(c, c.default)))
  BY Zenon DEF Serves
<1>2. b \in DOMAIN m <=> Listed(c, b) # {}
  BY <1>1, Zenon DEF HoldsItems, Listed
<1>3. b \in DOMAIN m => m[b] = Plugin(c, Last(Listed(c, b)))
  BY <1>1, Zenon DEF HoldsItems, UpTo, Listed
<1> QED BY <1>1, <1>2, <1>3, Zenon DEF Meaning

-----------------------------------------------------------------------------
(* Type correctness.                                                       *)

\* The two buffers are two.
LEMMA WriteOther ==
  ASSUME current_index \in Buffers
  PROVE  WriteBuffer \in Buffers /\ WriteBuffer # current_index
         /\ \A b \in Buffers : b = current_index \/ b = WriteBuffer
BY DEF Buffers, WriteBuffer

\* A map that goes on to map buckets to plugins.
MapType(m) == DOMAIN m \subseteq Nat /\ \A b \in DOMAIN m : m[b] \in Plugins \union {NULL}

\* A map with an entry put in is a map of the kind.
LEMMA PutType ==
  ASSUME NEW m, MapType(m), NEW b \in Nat, NEW p \in Plugins \union {NULL}
  PROVE  MapType(Put(m, b, p))
BY Zenon DEF MapType, Put

\* What a load puts in is a plugin.
LEMMA PluginType ==
  ASSUME NEW c \in Configs, NEW i \in 1 .. Len(c.items)
  PROVE  Plugin(c, i) \in Plugins
BY DEF Plugins

\* What TypeOK says of the buffers, with MapType.
BuffersType ==
  /\ current_index \in Buffers
  /\ DOMAIN plugins = Buffers
  /\ \A b \in Buffers : MapType(plugins[b])
  /\ default_plugin \in [Buffers -> Plugins \union {NULL}]
  /\ num_plugins \in [Buffers -> Nat]

LoaderType ==
  /\ file \in Configs \union {Unreadable}
  /\ up \in BOOLEAN
  /\ lpc \in {"sleep", "buckets", "swap", "ended"}
  /\ config \in Configs \union {NULL}
  /\ pos \in Nat
  /\ served \in Configs \union {NULL}

SelectType ==
  /\ spc \in [Threads -> {"idle", "mod", "find", "done"}]
  /\ id \in [Threads -> Nat] /\ mod \in [Threads -> Nat]
  /\ index \in [Threads -> Buffers]
  /\ result \in [Threads -> Plugins \union {NULL}]
  /\ saw \in [Threads -> Configs \union {NULL}]
  /\ swapped \in [Threads -> BOOLEAN]
  /\ overrun \in [Threads -> BOOLEAN]

\* The three parts of the type invariant.
LEMMA TypeParts == TypeOK <=> BuffersType /\ LoaderType /\ SelectType
BY Zenon DEF TypeOK, BuffersType, LoaderType, SelectType, MapType

\* The same after a step.
LEMMA TypePartsNext == TypeOK' <=> BuffersType' /\ LoaderType' /\ SelectType'
BY Zenon DEF TypeOK, BuffersType, LoaderType, SelectType, MapType

\* Loading keeps the types.
LEMMA OpenConfigType ==
  ASSUME BuffersType, LoaderType, SelectType, OpenConfig
  PROVE  BuffersType' /\ LoaderType' /\ SelectType'
<1> USE DEF BuffersType, LoaderType, SelectType, OpenConfig, select
<1>0. WriteBuffer \in Buffers
  BY WriteOther, Zenon
<1>1. num_plugins' \in [Buffers -> Nat]
  <2>1. CASE file = Unreadable
    BY <2>1, Zenon DEF LoadFails
  <2>2. CASE file # Unreadable
    <3>1. file \in Configs /\ (file.num = NULL \/ file.num \in Nat)
      BY <2>2, ConstantsAssumption, Zenon
    <3> QED BY <2>2, <3>1, <1>0, Zenon
  <2> QED BY <2>1, <2>2, Zenon
<1>2. DOMAIN plugins' = Buffers /\ \A b \in Buffers : MapType(plugins'[b])
  <2>1. MapType(Empty)
    BY Zenon DEF MapType, Empty
  <2> QED BY <2>1, <1>0, Zenon
<1>3. LoaderType'
  BY DEF LoadFails
<1>4. overrun' \in [Threads -> BOOLEAN]
  BY Zenon
<1> QED BY <1>1, <1>2, <1>3, <1>4, Zenon

\* Types: a bucket is loaded,
LEMMA LoadBucketType ==
  ASSUME BuffersType, LoaderType, SelectType, LoaderInv, LoadBucket
  PROVE  BuffersType' /\ LoaderType' /\ SelectType'
<1> USE DEF BuffersType, LoaderType, SelectType, LoadBucket, select, seen
<1> DEFINE item == config.items[pos + 1]
<1>0. WriteBuffer \in Buffers
  BY WriteOther, Zenon
<1>1. config \in Configs /\ pos \in Nat /\ Len(config.items) \in Nat /\ pos + 1 \in 1 .. Len(config.items)
  BY ConstantsAssumption DEF LoaderInv
<1>2. num_plugins' \in [Buffers -> Nat]
  <2>1. CASE item.ok BY <2>1, Zenon
  <2>2. CASE ~item.ok BY <2>2, Zenon DEF LoadFails
  <2> QED BY <2>1, <2>2, Zenon
<1>3. DOMAIN plugins' = Buffers /\ \A b \in Buffers : MapType(plugins'[b])
  <2>1. MapType(Put(plugins[WriteBuffer], item.bucket, Plugin(config, pos + 1)))
    BY <1>0, <1>1, PutType, PluginType, ItemType, Zenon
  <2> QED BY <2>1, <1>0, Zenon
<1>4. LoaderType'
  BY <1>1 DEF LoadFails
<1> QED BY <1>2, <1>3, <1>4, Zenon

\* the default bucket is set,
LEMMA SetDefaultType ==
  ASSUME BuffersType, LoaderType, SelectType, LoaderInv, SetDefault
  PROVE  BuffersType' /\ LoaderType' /\ SelectType'
<1> USE DEF BuffersType, LoaderType, SelectType, SetDefault, select, seen
<1> DEFINE m == plugins[WriteBuffer]
           p == IF config.default \in DOMAIN m THEN m[config.default] ELSE NULL
<1>0. WriteBuffer \in Buffers
  BY WriteOther, Zenon
<1>1. config \in Configs /\ config.default \in Nat
  BY ConstantsAssumption, Zenon DEF LoaderInv
<1>2. MapType(m) /\ p \in Plugins \union {NULL}
  BY <1>0, Zenon DEF MapType
<1>3. MapType(Put(m, config.default, p))
  BY <1>1, <1>2, PutType, Zenon
<1>4. plugins' = [plugins EXCEPT ![WriteBuffer] = Put(m, config.default, p)]
      /\ default_plugin' = [default_plugin EXCEPT ![WriteBuffer] = p]
  BY Zenon
<1> HIDE DEF m, p
<1>5. DOMAIN plugins' = Buffers /\ \A b \in Buffers : MapType(plugins'[b])
  BY <1>0, <1>3, <1>4, Zenon
<1>6. default_plugin' \in [Buffers -> Plugins \union {NULL}]
  BY <1>2, <1>4, Zenon
<1> QED BY <1>5, <1>6, Zenon

\* the buffers are swapped.
LEMMA SwapType ==
  ASSUME BuffersType, LoaderType, SelectType, Swap
  PROVE  BuffersType' /\ LoaderType' /\ SelectType'
<1> USE DEF BuffersType, LoaderType, SelectType, Swap, buffers, select
<1>1. BuffersType'
  BY WriteOther, Zenon
<1>2. swapped' \in [Threads -> BOOLEAN]
  BY Zenon
<1> QED BY <1>1, <1>2, Zenon

\* The server is started again.
LEMMA RestartType ==
  ASSUME BuffersType, LoaderType, SelectType, Restart
  PROVE  BuffersType' /\ LoaderType' /\ SelectType'
<1> USE DEF Restart, select, seen
<1>1. num_plugins' \in [Buffers -> Nat]
  BY ConstantsAssumption, Zenon
<1>2. BuffersType'
  BY <1>1, Zenon DEF BuffersType, MapType, Empty
<1>3. LoaderType' /\ SelectType'
  BY Zenon DEF LoaderType, SelectType
<1> QED BY <1>2, <1>3, Zenon

\* What Select looks up is a plugin or none.
LEMMA LookupType ==
  ASSUME BuffersType, NEW b \in Buffers, NEW m
  PROVE  Lookup(b, m) \in Plugins \union {NULL}
BY Zenon DEF BuffersType, MapType, Lookup

\* A remainder is a bucket.
LEMMA ModType ==
  ASSUME NEW a \in Nat, NEW n \in Nat, n > 0
  PROVE  a % n \in Nat
OBVIOUS

\* Every step of Select keeps the types.
LEMMA SelectStepType ==
  ASSUME BuffersType, LoaderType, SelectType, NEW s \in Threads,
         \/ \E u \in Ids : SelectIndex(s, u)
         \/ SelectMod(s)
         \/ SelectFind(s)
         \/ SelectReturn(s)
  PROVE  BuffersType' /\ LoaderType' /\ SelectType'
<1> USE DEF BuffersType, LoaderType, SelectType, buffers, loader, seen
<1>1. ASSUME NEW u \in Ids, SelectIndex(s, u)
      PROVE  BuffersType' /\ LoaderType' /\ SelectType'
  BY <1>1, ConstantsAssumption, Zenon DEF SelectIndex
<1>2. CASE SelectMod(s)
  <2>1. id[s] % num_plugins[index[s]] \in Nat
    BY <1>2, ModType, Zenon DEF SelectMod
  <2> QED BY <1>2, <2>1, Zenon DEF SelectMod
<1>3. CASE SelectFind(s)
  <2>1. PICK p : p \in Plugins \union {NULL} /\ result' = [result EXCEPT ![s] = p]
    BY <1>3, LookupType, Zenon DEF SelectFind
  <2> QED BY <1>3, <2>1, Zenon DEF SelectFind
<1>4. CASE SelectReturn(s)
  BY <1>4, Zenon DEF SelectReturn, Buffers
<1> QED BY <1>1, <1>2, <1>3, <1>4, Zenon

-----------------------------------------------------------------------------
(* The inductive invariant.                                                *)

\* A new process.
LEMMA InitInv == Init => IInv
<1> SUFFICES ASSUME Init PROVE IInv
  BY Zenon
<1> USE DEF Init
<1>1. BuffersType
  BY ConstantsAssumption, Zenon DEF BuffersType, MapType, Empty, Buffers
<1>2. LoaderType /\ SelectType
  BY Zenon DEF LoaderType, SelectType, Buffers
<1>3. LoaderInv /\ ServedInv /\ SelectInv
  BY Zenon DEF LoaderInv, ServedInv, SelectInv, SelectOK
<1> QED BY <1>1, <1>2, <1>3, TypeParts, Zenon DEF IInv

\* What a thread in Select keeps when its variables, its buffer and current_index_
\* do not change.
LEMMA SelectKeeps ==
  ASSUME SelectInv, NEW s \in Threads,
         UNCHANGED <<spc, id, index, mod, result, saw, swapped, overrun, current_index>>,
         up => up',
         spc[s] # "idle" /\ ~overrun[s] =>
           /\ lpc' # "sleep" => lpc # "sleep"
           /\ BufferServes(index[s], saw[s]) => BufferServes(index[s], saw[s])'
  PROVE  SelectOK(s)'
BY Zenon DEF SelectInv, SelectOK, Computed, BufferServes

\* The invariant: a load begins,
LEMMA OpenConfigInv ==
  ASSUME BuffersType, SelectType, LoaderType, ServedInv, SelectInv, OpenConfig
  PROVE  LoaderInv' /\ ServedInv' /\ SelectInv'
<1> USE DEF OpenConfig, select
<1>0. /\ WriteBuffer \in Buffers /\ current_index \in Buffers
      /\ WriteBuffer # current_index /\ WriteBuffer' = WriteBuffer
      /\ \A b \in Buffers : b = current_index \/ b = WriteBuffer
  BY WriteOther, Zenon DEF BuffersType, WriteBuffer
<1>1. up => /\ plugins'[current_index] = plugins[current_index]
            /\ default_plugin'[current_index] = default_plugin[current_index]
            /\ num_plugins'[current_index] = num_plugins[current_index]
  BY <1>0, Zenon DEF BuffersType, LoadFails
<1>2. LoaderInv'
  <2>1. CASE file = Unreadable
    BY <2>1, Zenon DEF LoaderInv, LoadFails
  <2>2. CASE file # Unreadable
    <3>1. lpc' = "buckets" /\ config' = file /\ pos' = 0 /\ file \in Configs
      BY <2>2, Zenon DEF LoaderType
    <3>2. HoldsItems(plugins'[WriteBuffer], file, 0)
      BY <1>0 DEF BuffersType, HoldsItems, Empty
    <3>3. file.num # NULL => num_plugins'[WriteBuffer] = file.num
      BY <1>0, <2>2, Zenon DEF BuffersType
    <3>4. 0 \in 0 .. Len(file.items)
      BY <3>1, ConstantsAssumption
    <3> QED BY <3>1, <3>2, <3>3, <3>4, <1>0, Zenon DEF LoaderInv
  <2> QED BY <2>1, <2>2, Zenon
<1>3. ServedInv'
  BY <1>1, Zenon DEF ServedInv, BufferServes
<1>4. SelectInv'
  <2> SUFFICES ASSUME NEW s \in Threads
               PROVE  SelectOK(s)'
    BY Zenon DEF SelectInv
  <2>1. overrun'[s] = (overrun[s] \/ (spc[s] # "idle" /\ index[s] = WriteBuffer))
    BY Zenon
  <2>2. overrun'[s] => swapped'[s]
    BY <2>1, <1>0, Zenon DEF SelectInv, SelectOK
  <2>3. ASSUME spc[s] # "idle", ~overrun'[s]
        PROVE  index[s] = current_index /\ BufferServes(index[s], saw[s])'
    <3>1. index[s] = current_index /\ ~overrun[s]
      BY <2>1, <2>3, <1>0, Zenon DEF SelectType
    <3>2. up /\ BufferServes(index[s], saw[s])
      BY <3>1, <2>3, Zenon DEF SelectInv, SelectOK
    <3> QED BY <3>1, <3>2, <1>1, Zenon DEF BufferServes
  <2> QED BY <2>1, <2>2, <2>3, Zenon DEF SelectInv, SelectOK, Computed, BufferServes
<1> QED BY <1>2, <1>3, <1>4, Zenon

\* While it loads, LoadPlugins leaves the current buffer alone, and with it what
\* the Selects that are not overrun read.
LEMMA LoadingKeeps ==
  ASSUME ServedInv, SelectInv, lpc # "sleep",
         UNCHANGED <<spc, id, index, mod, result, saw, swapped, overrun, current_index,
                     up, served>>,
         up => /\ plugins'[current_index] = plugins[current_index]
               /\ default_plugin'[current_index] = default_plugin[current_index]
               /\ num_plugins'[current_index] = num_plugins[current_index]
  PROVE  ServedInv' /\ SelectInv'
<1>1. ServedInv'
  BY Zenon DEF ServedInv, BufferServes
<1>2. ASSUME NEW s \in Threads PROVE SelectOK(s)'
  <2>1. ASSUME spc[s] # "idle", ~overrun[s] PROVE up /\ index[s] = current_index
    BY <2>1, Zenon DEF SelectInv, SelectOK
  <2>2. ASSUME spc[s] # "idle", ~overrun[s], BufferServes(index[s], saw[s])
        PROVE  BufferServes(index[s], saw[s])'
    BY <2>1, <2>2, Zenon DEF BufferServes
  <2> QED BY <2>2, SelectKeeps, Zenon
<1> QED BY <1>1, <1>2, Zenon DEF SelectInv

\* it loads a bucket,
LEMMA LoadBucketInv ==
  ASSUME BuffersType, LoaderInv, ServedInv, SelectInv, LoadBucket
  PROVE  LoaderInv' /\ ServedInv' /\ SelectInv'
<1> USE DEF LoadBucket, select, seen
<1> DEFINE item == config.items[pos + 1]
<1>0. /\ WriteBuffer \in Buffers /\ current_index \in Buffers
      /\ WriteBuffer # current_index /\ WriteBuffer' = WriteBuffer
  BY WriteOther, Zenon DEF BuffersType, WriteBuffer
<1>1. up => /\ plugins'[current_index] = plugins[current_index]
            /\ default_plugin'[current_index] = default_plugin[current_index]
            /\ num_plugins'[current_index] = num_plugins[current_index]
  BY <1>0, Zenon DEF BuffersType, LoadFails
<1>2. LoaderInv'
  <2>1. CASE ~item.ok
    BY <2>1, Zenon DEF LoaderInv, LoadFails
  <2>2. CASE item.ok
    <3>1. /\ config \in Configs /\ pos \in Nat /\ pos < Len(config.items)
          /\ Len(config.items) \in Nat
          /\ HoldsItems(plugins[WriteBuffer], config, pos)
          /\ config.num # NULL => num_plugins[WriteBuffer] = config.num
      BY ConstantsAssumption DEF LoaderInv
    <3>2. /\ lpc' = "buckets" /\ config' = config /\ pos' = pos + 1
          /\ num_plugins' = num_plugins
          /\ plugins'[WriteBuffer] =
               Put(plugins[WriteBuffer], item.bucket, Plugin(config, pos + 1))
      BY <2>2, <1>0, Zenon DEF BuffersType
    <3>3. HoldsItems(plugins'[WriteBuffer], config, pos + 1)
      BY <3>1, <3>2, PutHolds, Zenon
    <3>4. pos + 1 \in 0 .. Len(config.items)
      BY <3>1
    <3> QED BY <3>1, <3>2, <3>3, <3>4, <1>0, Zenon DEF LoaderInv
  <2> QED BY <2>1, <2>2, Zenon
<1>3. lpc # "sleep" /\ UNCHANGED <<spc, id, index, mod, result, saw, swapped, overrun,
                                   current_index, up, served>>
  BY Zenon
<1> QED BY <1>1, <1>2, <1>3, LoadingKeeps, Zenon

\* sets the default bucket
LEMMA SetDefaultInv ==
  ASSUME BuffersType, LoaderInv, ServedInv, SelectInv, SetDefault
  PROVE  LoaderInv' /\ ServedInv' /\ SelectInv'
<1> USE DEF SetDefault, select, seen
<1> DEFINE m == plugins[WriteBuffer]
           p == IF config.default \in DOMAIN m THEN m[config.default] ELSE NULL
<1>0. /\ WriteBuffer \in Buffers /\ current_index \in Buffers
      /\ WriteBuffer # current_index /\ WriteBuffer' = WriteBuffer
  BY WriteOther, Zenon DEF BuffersType, WriteBuffer
<1>1. /\ plugins'[WriteBuffer] = Put(m, config.default, p)
      /\ default_plugin'[WriteBuffer] = p
      /\ num_plugins' = num_plugins
      /\ plugins'[current_index] = plugins[current_index]
      /\ default_plugin'[current_index] = default_plugin[current_index]
  BY <1>0, Zenon DEF BuffersType
<1>2. /\ config \in Configs /\ pos = Len(config.items) /\ pos \in 0 .. Len(config.items)
      /\ HoldsItems(m, config, Len(config.items))
      /\ config.num # NULL => num_plugins[WriteBuffer] = config.num
  BY Zenon DEF LoaderInv
<1>3. ASSUME WellFormed(config)
      PROVE  /\ num_plugins'[WriteBuffer] = config.num
             /\ HoldsItems(plugins'[WriteBuffer], config, Len(config.items))
             /\ default_plugin'[WriteBuffer] = Plugin(config, Last(Listed(config, config.default)))
  <2>1. config.num # NULL
    BY <1>3, Zenon DEF WellFormed
  <2>2. /\ config.default \in DOMAIN m
        /\ m[config.default] = Plugin(config, Last(Listed(config, config.default)))
        /\ HoldsItems(Put(m, config.default, m[config.default]), config, Len(config.items))
    BY <1>2, <1>3, DefaultFound, Zenon
  <2> QED BY <2>1, <2>2, <1>1, <1>2, Zenon
<1>4. lpc' = "swap" /\ config' = config /\ pos' = pos
  BY Zenon
<1>5. BufferServes(WriteBuffer, config)'
  BY <1>0, <1>3, <1>4, Zenon DEF BufferServes, Serves
<1>6. LoaderInv'
  BY <1>0, <1>1, <1>2, <1>4, <1>5, Zenon DEF LoaderInv
<1>7. lpc # "sleep" /\ UNCHANGED <<spc, id, index, mod, result, saw, swapped, overrun,
                                   current_index, up, served>>
  BY Zenon
<1> HIDE DEF SetDefault
<1> QED BY <1>1, <1>6, <1>7, LoadingKeeps, Zenon

\* and swaps the buffers;
LEMMA SwapInv ==
  ASSUME BuffersType, SelectType, LoaderInv, SelectInv, Swap
  PROVE  LoaderInv' /\ ServedInv' /\ SelectInv'
<1> USE DEF Swap, buffers, select
<1>1. config \in Configs /\ BufferServes(WriteBuffer, config)
  BY Zenon DEF LoaderInv
<1>2. LoaderInv'
  BY Zenon DEF LoaderInv
<1>3. ServedInv'
  BY <1>1, Zenon DEF ServedInv, BufferServes
<1>4. ASSUME NEW s \in Threads PROVE SelectOK(s)'
  <2>1. swapped'[s] = (swapped[s] \/ spc[s] # "idle") /\ lpc' = "sleep" /\ up'
    BY Zenon
  <2>2. UNCHANGED <<spc, id, index, mod, result, saw, overrun, buffers>>
    BY Zenon
  <2> HIDE DEF Swap
  <2> QED BY <2>1, <2>2, Zenon DEF SelectInv, SelectOK, Computed, BufferServes
<1> QED BY <1>2, <1>3, <1>4, Zenon DEF SelectInv

\* a server that is started again has no thread in Select.
LEMMA RestartInv ==
  ASSUME LoaderInv, ServedInv, SelectInv, Restart
  PROVE  LoaderInv' /\ ServedInv' /\ SelectInv'
<1> USE DEF Restart, select, seen
<1>1. ~up /\ up' = up /\ lpc' = "sleep"
  BY Zenon DEF LoaderInv
<1>2. LoaderInv' /\ ServedInv'
  <2> HIDE DEF Restart
  <2>1. LoaderInv'
    BY <1>1 DEF LoaderInv
  <2> QED BY <1>1, <2>1, Zenon DEF ServedInv
<1>3. SelectInv'
  BY <1>1, Zenon DEF SelectInv, SelectOK
<1> QED BY <1>2, <1>3, Zenon

\* A step of one thread in Select leaves the others and the loader as they are.
LEMMA SelectStepInv ==
  ASSUME BuffersType, SelectType, LoaderInv, ServedInv, SelectInv, NEW s \in Threads,
         UNCHANGED <<up, current_index, buffers, loader, served>>,
         \A t \in Threads \ {s} :
           /\ spc'[t] = spc[t] /\ id'[t] = id[t] /\ index'[t] = index[t]
           /\ mod'[t] = mod[t] /\ result'[t] = result[t] /\ saw'[t] = saw[t]
           /\ swapped'[t] = swapped[t] /\ overrun'[t] = overrun[t],
         SelectOK(s)'
  PROVE  LoaderInv' /\ ServedInv' /\ SelectInv'
<1>1. LoaderInv' /\ ServedInv'
  BY Zenon DEF LoaderInv, ServedInv, BufferServes, WriteBuffer, buffers, loader
<1>2. ASSUME NEW t \in Threads, t # s PROVE SelectOK(t)'
  BY <1>2, ZenonT(30) DEF SelectInv, SelectOK, Computed, BufferServes, buffers, loader
<1> QED BY <1>1, <1>2, Zenon DEF SelectInv

\* Each step of Select.
LEMMA SelectIndexInv ==
  ASSUME BuffersType, SelectType, LoaderInv, ServedInv, SelectInv,
         NEW s \in Threads, NEW u \in Ids, SelectIndex(s, u)
  PROVE  LoaderInv' /\ ServedInv' /\ SelectInv'
<1> USE DEF SelectIndex
<1>1. /\ spc'[s] = "mod" /\ index'[s] = current_index /\ saw'[s] = served /\ up
      /\ swapped' = swapped /\ overrun' = overrun
  BY Zenon DEF SelectType
<1>2. UNCHANGED <<up, current_index, buffers, loader, served>>
  BY Zenon
<1>3. \A t \in Threads \ {s} :
        /\ spc'[t] = spc[t] /\ id'[t] = id[t] /\ index'[t] = index[t]
        /\ mod'[t] = mod[t] /\ result'[t] = result[t] /\ saw'[t] = saw[t]
        /\ swapped'[t] = swapped[t] /\ overrun'[t] = overrun[t]
  BY Zenon DEF SelectType
<1>4. SelectOK(s)'
  <2>1. served \in Configs /\ BufferServes(current_index, served)
    BY <1>1, Zenon DEF ServedInv
  <2>2. overrun[s] => swapped[s]
    BY Zenon DEF SelectInv, SelectOK
  <2> HIDE DEF SelectIndex
  <2>3. Computed(s)'
    BY <1>1, Zenon DEF Computed
  <2> QED BY <1>1, <1>2, <2>1, <2>2, <2>3, Zenon DEF SelectOK, BufferServes, buffers
<1> QED BY <1>2, <1>3, <1>4, SelectStepInv, Zenon

\* Select computes the bucket,
LEMMA SelectModInv ==
  ASSUME BuffersType, SelectType, LoaderInv, ServedInv, SelectInv,
         NEW s \in Threads, SelectMod(s)
  PROVE  LoaderInv' /\ ServedInv' /\ SelectInv'
<1> USE DEF SelectMod, seen
<1>1. /\ spc[s] = "mod" /\ spc'[s] = "find" /\ mod'[s] = id[s] % num_plugins[index[s]]
      /\ UNCHANGED <<id, index, result, saw, swapped, overrun>>
  BY Zenon DEF SelectType
<1>2. UNCHANGED <<up, current_index, buffers, loader, served>>
  BY Zenon
<1>3. \A t \in Threads \ {s} :
        /\ spc'[t] = spc[t] /\ id'[t] = id[t] /\ index'[t] = index[t]
        /\ mod'[t] = mod[t] /\ result'[t] = result[t] /\ saw'[t] = saw[t]
        /\ swapped'[t] = swapped[t] /\ overrun'[t] = overrun[t]
  BY Zenon DEF SelectType
<1>4. SelectOK(s)'
  <2> HIDE DEF SelectMod
  <2>1. SelectOK(s)
    BY Zenon DEF SelectInv
  <2>2. BufferServes(index[s], saw[s]) /\ WellFormed(saw[s]) =>
          mod'[s] = id[s] % saw[s].num
    BY <1>1, Zenon DEF BufferServes, Serves
  <2>3. BufferServes(index[s], saw[s]) => Computed(s)'
    BY <1>1, <2>2, Zenon DEF Computed
  <2> QED BY <1>1, <1>2, <2>1, <2>3, Zenon DEF SelectOK, BufferServes, buffers, loader
<1> QED BY <1>2, <1>3, <1>4, SelectStepInv, Zenon

\* looks it up
LEMMA SelectFindInv ==
  ASSUME BuffersType, SelectType, LoaderInv, ServedInv, SelectInv,
         NEW s \in Threads, SelectFind(s)
  PROVE  LoaderInv' /\ ServedInv' /\ SelectInv'
<1> USE DEF SelectFind, seen
<1>1. /\ spc[s] = "find" /\ spc'[s] = "done"
      /\ ~overrun[s] => result'[s] = Lookup(index[s], mod[s])
      /\ UNCHANGED <<id, index, mod, saw, swapped, overrun>>
  BY Zenon DEF SelectType
<1>2. UNCHANGED <<up, current_index, buffers, loader, served>>
  BY Zenon
<1>3. \A t \in Threads \ {s} :
        /\ spc'[t] = spc[t] /\ id'[t] = id[t] /\ index'[t] = index[t]
        /\ mod'[t] = mod[t] /\ result'[t] = result[t] /\ saw'[t] = saw[t]
        /\ swapped'[t] = swapped[t] /\ overrun'[t] = overrun[t]
  BY Zenon DEF SelectType
<1>4. SelectOK(s)'
  <2> HIDE DEF SelectFind
  <2>1. SelectOK(s)
    BY Zenon DEF SelectInv
  <2>2. ASSUME ~overrun[s], WellFormed(saw[s])
        PROVE  result'[s] = Meaning(saw[s], id[s])
    <3>1. /\ saw[s] \in Configs /\ id[s] \in Nat
          /\ Serves(plugins[index[s]], default_plugin[index[s]], num_plugins[index[s]], saw[s])
          /\ mod[s] = id[s] % saw[s].num
      BY <1>1, <2>1, <2>2, Zenon DEF SelectOK, Computed, BufferServes, SelectType
    <3>2. num_plugins[index[s]] = saw[s].num
      BY <2>2, <3>1, Zenon DEF Serves
    <3> HIDE DEF seen
    <3>3. (IF id[s] % num_plugins[index[s]] \in DOMAIN plugins[index[s]]
           THEN plugins[index[s]][id[s] % num_plugins[index[s]]]
           ELSE default_plugin[index[s]]) = Meaning(saw[s], id[s])
      BY <2>2, <3>1, FindsMeaning, Zenon
    <3>4. Lookup(index[s], mod[s]) = Meaning(saw[s], id[s])
      BY <3>1, <3>2, <3>3, Zenon DEF Lookup
    <3> QED BY <1>1, <2>2, <3>4, Zenon
  <2>3. ~overrun[s] => Computed(s)'
    BY <1>1, <2>2, Zenon DEF Computed
  <2> QED BY <1>1, <1>2, <2>1, <2>3, Zenon DEF SelectOK, BufferServes, buffers, loader
<1> QED BY <1>2, <1>3, <1>4, SelectStepInv, Zenon

\* and returns.
LEMMA SelectReturnInv ==
  ASSUME BuffersType, SelectType, LoaderInv, ServedInv, SelectInv,
         NEW s \in Threads, SelectReturn(s)
  PROVE  LoaderInv' /\ ServedInv' /\ SelectInv'
<1> USE DEF SelectReturn
<1>1. spc'[s] = "idle" /\ overrun'[s] = FALSE
  BY Zenon DEF SelectType
<1>2. UNCHANGED <<up, current_index, buffers, loader, served>>
  BY Zenon
<1>3. \A t \in Threads \ {s} :
        /\ spc'[t] = spc[t] /\ id'[t] = id[t] /\ index'[t] = index[t]
        /\ mod'[t] = mod[t] /\ result'[t] = result[t] /\ saw'[t] = saw[t]
        /\ swapped'[t] = swapped[t] /\ overrun'[t] = overrun[t]
  BY Zenon DEF SelectType
<1>4. SelectOK(s)'
  BY <1>1, Zenon DEF SelectOK
<1> QED BY <1>2, <1>3, <1>4, SelectStepInv, Zenon

\* Editing the file, and not moving at all, change nothing the invariant is about.
LEMMA KeepInv ==
  ASSUME LoaderInv, ServedInv, SelectInv,
         UNCHANGED <<up, current_index, buffers, loader, select, served, seen>>
  PROVE  LoaderInv' /\ ServedInv' /\ SelectInv'
<1> USE DEF buffers, loader, select, seen
<1>1. LoaderInv' /\ ServedInv'
  BY Zenon DEF LoaderInv, ServedInv, BufferServes, WriteBuffer
<1>2. SelectInv'
  BY Zenon DEF SelectInv, SelectOK, Computed, BufferServes
<1> QED BY <1>1, <1>2, Zenon

\* So do steps that change the file only.
LEMMA KeepType ==
  ASSUME BuffersType, LoaderType, SelectType,
         UNCHANGED <<up, current_index, buffers, loader, select, served, seen>>,
         file' \in Configs \union {Unreadable}
  PROVE  BuffersType' /\ LoaderType' /\ SelectType'
BY Zenon DEF BuffersType, LoaderType, SelectType, buffers, loader, select, seen

\* The invariant is inductive.
LEMMA NextInv == IInv /\ [Next]_vars => IInv'
<1> SUFFICES ASSUME IInv, [Next]_vars
             PROVE  /\ BuffersType' /\ LoaderType' /\ SelectType'
                    /\ LoaderInv' /\ ServedInv' /\ SelectInv'
  BY TypePartsNext, Zenon DEF IInv
<1>0. BuffersType /\ LoaderType /\ SelectType /\ LoaderInv /\ ServedInv /\ SelectInv
  BY TypeParts, Zenon DEF IInv
<1>1. ASSUME NEW c \in Configs \union {Unreadable}, EditFile(c)
      PROVE  /\ BuffersType' /\ LoaderType' /\ SelectType'
             /\ LoaderInv' /\ ServedInv' /\ SelectInv'
  BY <1>0, <1>1, KeepInv, KeepType, Zenon DEF EditFile
<1>2. CASE OpenConfig
  BY <1>0, <1>2, OpenConfigType, OpenConfigInv, Zenon
<1>3. CASE LoadBucket
  BY <1>0, <1>3, LoadBucketType, LoadBucketInv, Zenon
<1>4. CASE SetDefault
  BY <1>0, <1>4, SetDefaultType, SetDefaultInv, Zenon
<1>5. CASE Swap
  BY <1>0, <1>5, SwapType, SwapInv, Zenon
<1>8. CASE Restart
  BY <1>0, <1>8, RestartType, RestartInv, Zenon
<1>6. ASSUME NEW s \in Threads,
             \/ \E u \in Ids : SelectIndex(s, u)
             \/ SelectMod(s) \/ SelectFind(s) \/ SelectReturn(s)
      PROVE  /\ BuffersType' /\ LoaderType' /\ SelectType'
             /\ LoaderInv' /\ ServedInv' /\ SelectInv'
  <2>1. BuffersType' /\ LoaderType' /\ SelectType'
    BY <1>0, <1>6, SelectStepType, Zenon
  <2>2. LoaderInv' /\ ServedInv' /\ SelectInv'
    BY <1>0, <1>6, SelectIndexInv, SelectModInv, SelectFindInv, SelectReturnInv, Zenon
  <2> QED BY <2>1, <2>2, Zenon
<1>7. CASE UNCHANGED vars
  BY <1>0, <1>7, KeepInv, KeepType, Zenon DEF vars, LoaderType
<1> QED BY <1>1, <1>2, <1>3, <1>4, <1>5, <1>6, <1>7, <1>8, Zenon DEF Next, LoadPlugins

\* The invariant holds in every state.
LEMMA Invariance == Spec => []IInv
BY InitInv, NextInv, PTL DEF Spec

-----------------------------------------------------------------------------
(* The theorems.                                                           *)

\* Every variable keeps its type, with unparsable, unreadable and changing files.
THEOREM TypeCorrect == Spec => []TypeOK
<1>1. IInv => TypeOK
  BY Zenon DEF IInv
<1> QED BY <1>1, Invariance, PTL

\* Select answers from one whole configuration, the one served when it read
\* current_index_, unless LoadPlugins began to write its buffer meanwhile.
THEOREM SelectsWhole == Spec => []SelectsFromOneConfig
<1>1. IInv => SelectsFromOneConfig
  <2> SUFFICES ASSUME IInv, NEW s \in Threads, spc[s] = "done", ~overrun[s],
                      WellFormed(saw[s])
               PROVE  result[s] = Meaning(saw[s], id[s])
    BY Zenon DEF SelectsFromOneConfig
  <2>1. Computed(s)
    BY Zenon DEF IInv, SelectInv, SelectOK
  <2> QED BY <2>1, Zenon DEF Computed
<1> QED BY <1>1, Invariance, PTL

\* LoadPlugins writes the buffer of a Select only after a swap that the Select
\* did not see.
THEOREM BuffersSeparate == Spec => []OverrunOnlyAfterSwap
<1>1. IInv => OverrunOnlyAfterSwap
  BY Zenon DEF IInv, SelectInv, SelectOK, OverrunOnlyAfterSwap
<1> QED BY <1>1, Invariance, PTL

\* What Select would answer does not change between swaps: loads in progress and
\* loads that fail are invisible.
THEOREM LoadsInvisible == Spec => AnswersChangeBySwapOnly
<1>1. ASSUME IInv, [Next]_vars, up, current_index' = current_index
      PROVE  Answers' = Answers
  <2>0. BuffersType /\ current_index \in Buffers /\ LoaderInv
    BY <1>1, TypeParts, Zenon DEF IInv, BuffersType
  <2>1. /\ plugins'[current_index] = plugins[current_index]
        /\ default_plugin'[current_index] = default_plugin[current_index]
        /\ num_plugins'[current_index] = num_plugins[current_index]
    <3>0. WriteBuffer \in Buffers /\ WriteBuffer # current_index
      BY <2>0, WriteOther, Zenon
    <3>1. CASE OpenConfig
      BY <1>1, <2>0, <3>0, <3>1, Zenon DEF OpenConfig, LoadFails, BuffersType
    <3>2. CASE LoadBucket
      BY <1>1, <2>0, <3>0, <3>2, Zenon DEF LoadBucket, LoadFails, BuffersType
    <3>3. CASE SetDefault
      BY <1>1, <2>0, <3>0, <3>3, Zenon DEF SetDefault, BuffersType
    <3>4. CASE UNCHANGED buffers
      BY <3>4, Zenon DEF buffers
    <3>6. ~Restart
      BY <1>1, <2>0, Zenon DEF Restart, LoaderInv
    <3>5. [Next]_vars => OpenConfig \/ LoadBucket \/ SetDefault \/ Restart \/ UNCHANGED buffers
      BY Zenon DEF Next, vars, LoadPlugins, EditFile, Swap, SelectIndex, SelectMod,
                   SelectFind, SelectReturn
    <3> QED BY <1>1, <3>1, <3>2, <3>3, <3>4, <3>5, <3>6, Zenon
  <2>2. \A m : Lookup(current_index, m)' = Lookup(current_index, m)
    BY <1>1, <2>1, Zenon DEF Lookup
  <2> QED BY <1>1, <2>1, <2>2, Zenon DEF Answers, Lookup
<1>2. IInv /\ [Next]_vars => [up /\ current_index' = current_index => Answers' = Answers]_vars
  BY <1>1, Zenon
<1> QED BY <1>2, Invariance, PTL DEF Spec, AnswersChangeBySwapOnly
=============================================================================
