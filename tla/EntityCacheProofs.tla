--------------------------- MODULE EntityCacheProofs ---------------------------
(***************************************************************************)
(* No watcher of a destroyed instance is left behind, for any number of    *)
(* objects, instances and request threads. NoOrphanWatch is not inductive  *)
(* by itself: a destructor queues the hash of its own object, so a match   *)
(* must be kept under the object of its instance (WatchesOwnObject); and a *)
(* step that takes a reference must not drop another one silently          *)
(* (NothingOverwritten). WatchInv is the inductive invariant. The last     *)
(* part is about a cached entity at startup, when no query fails:          *)
(* StartupInv says which objects the fill may still miss, or hold although *)
(* they are gone, because a signal for them waits until the dbus thread    *)
(* observes; once nothing waits, the cache is what is there.               *)
(***************************************************************************)
EXTENDS EntityCache, TLAPS

\* What counts as a reference.
LEMMA RefsAre ==
  ASSUME NEW cache, NEW rdr, NEW hdl, NEW i
  PROVE  i \in Refs(cache, rdr, hdl) <=>
            /\ i # None
            /\ \/ \E o \in DOMAIN cache : i = cache[o]
               \/ \E t \in Readers : i \in rdr[t].holds \/ i = rdr[t].new
               \/ i = hdl.new \/ i = hdl.found
<1> DEFINE cached == Range(cache)
           held == UNION {rdr[t].holds \cup {rdr[t].new} : t \in Readers}
<1>1. i \in cached <=> \E o \in DOMAIN cache : i = cache[o]
  BY DEF Range
<1>2. i \in held <=> \E t \in Readers : i \in rdr[t].holds \/ i = rdr[t].new
  OBVIOUS
<1>3. Refs(cache, rdr, hdl) = (cached \cup held \cup {hdl.new, hdl.found}) \ {None}
  BY DEF Refs
<1> HIDE DEF cached, held
<1> QED BY <1>1, <1>2, <1>3

\* When destructors run, what lost its last reference is queued under its
\* object, so every match is accounted for.
LEMMA DestructorsKeep ==
  ASSUME Destructors,
         \A o \in Objects : \A i \in listeners'[o] :
            object[i] = o /\ (i \in Referenced \/ o \in toCleanupInstances)
  PROVE  NoOrphanWatch'
<1>1. toCleanupInstances' =
        toCleanupInstances \cup {object[i] : i \in Referenced \ Referenced'}
  BY DEF Destructors, MarkInstances, Referenced
<1> QED BY <1>1 DEF NoOrphanWatch

\* A step that only takes references leaves nothing behind.
LEMMA GrowthKeeps ==
  ASSUME NoOrphanWatch, UNCHANGED <<toCleanupInstances, listeners>>,
         Referenced \subseteq Referenced'
  PROVE  NoOrphanWatch'
  BY DEF NoOrphanWatch

\* The first state: nothing is cached, nothing watched.
LEMMA WatchInvInit == Init => WatchInv
<1> SUFFICES ASSUME Init PROVE WatchInv
  OBVIOUS
<1> USE CacheAssumption
<1>1. (CHOOSE o \in Objects : TRUE) \in Objects
  OBVIOUS
<1>2. IdleReader \in ReaderType
  BY DEF IdleReader, ReaderType, ReaderSteps, FillSteps, NoValue
<1>3. IdleHandler \in HandlerType
  BY DEF IdleHandler, HandlerType
<1>4. TypeOK
  <2>1. /\ present \subseteq Objects /\ world \in [Objects -> Nat]
        /\ events \in 0..MaxEvents /\ inbox \in Seq(Signal)
        /\ instances \in [Objects -> Instances \cup {None}]
    BY DEF Init
  <2>2. /\ field \in [Instances -> Int] /\ state \in [Instances -> BOOLEAN]
        /\ object \in [Instances -> Objects]
        /\ listeners \in [Objects -> SUBSET Instances]
        /\ toCleanupInstances \subseteq Objects
    BY <1>1 DEF Init, NoValue
  <2>3. /\ initialized \in BOOLEAN /\ hasErrors \in BOOLEAN
        /\ cachingInProgress \in BOOLEAN /\ observing \in BOOLEAN
        /\ registered \in Nat
    BY DEF Init
  <2>4. /\ reader \in [Readers -> ReaderType]
        /\ \A t \in Readers : reader[t].pc = "idle"
    BY <1>2 DEF Init, IdleReader
  <2>5. /\ handler \in HandlerType
        /\ handler.left = 0 /\ handler.pc = "idle"
    BY <1>3 DEF Init, IdleHandler
  <2> QED BY <2>1, <2>2, <2>3, <2>4, <2>5 DEF TypeOK
<1>5. WatchesOwnObject /\ NothingOverwritten /\ NoOrphanWatch
  BY DEF Init, WatchesOwnObject, NothingOverwritten, NoOrphanWatch, IdleReader,
         IdleHandler
<1> QED BY <1>4, <1>5 DEF WatchInv

\* References only grow when every place keeps what it refers to.
LEMMA RefsGrow ==
  ASSUME UNCHANGED instances,
         \A t \in Readers :
            /\ reader[t].holds \subseteq reader'[t].holds
            /\ reader[t].new \in reader'[t].holds \cup {None, reader'[t].new},
         handler.new \in {None, handler'.new},
         handler.found \in {None, handler'.found}
  PROVE  Referenced \subseteq Referenced'
<1>1. ASSUME NEW i \in Referenced PROVE i \in Referenced'
  <2>1. /\ i # None
        /\ \/ \E o \in DOMAIN instances : i = instances[o]
           \/ \E t \in Readers : i \in reader[t].holds \/ i = reader[t].new
           \/ i = handler.new \/ i = handler.found
    BY <1>1, RefsAre DEF Referenced
  <2>2. /\ i # None
        /\ \/ \E o \in DOMAIN instances' : i = instances'[o]
           \/ \E t \in Readers : i \in reader'[t].holds \/ i = reader'[t].new
           \/ i = handler'.new \/ i = handler'.found
    BY <2>1
  <2> QED BY <2>2, RefsAre DEF Referenced
<1> QED BY <1>1

\* The steps of a request thread that only move on.
LEMMA MovingKeeps ==
  ASSUME WatchInv, NEW t \in Readers,
         Populate(t) \/ Claim(t) \/ Finish(t) \/ Mark(t) \/ Answer(t)
  PROVE  WatchInv'
<1> USE DEF WatchInv
<1>1. /\ UNCHANGED <<worldVars, inbox, instances, dataVars, listeners,
                     toCleanupInstances, registered, handler, observing>>
      /\ initialized' \in BOOLEAN /\ hasErrors' \in BOOLEAN
      /\ cachingInProgress' \in BOOLEAN
  BY DEF Populate, Claim, Finish, Mark, Answer, flagVars, TypeOK
<1>2. PICK step \in ReaderSteps :
        /\ reader' = [reader EXCEPT ![t].pc = step]
        /\ step \notin {"create", "bind", "fill"}
        /\ reader[t].pc # "verify" => step # "verify"
        /\ \/ reader[t].pc \in {"idle", "claim", "finish", "mark"}
           \/ reader[t].pc = "verify" /\ step = "answer"
  BY DEF Populate, Claim, Finish, Mark, Answer, Goto, At, AfterPopulate,
         ReaderSteps, FillSteps
<1>3. ASSUME NEW u \in Readers
      PROVE  /\ reader'[u] = IF u = t THEN [reader[u] EXCEPT !.pc = step]
                              ELSE reader[u]
             /\ reader'[u] \in ReaderType
             /\ reader'[u].holds = reader[u].holds
             /\ reader'[u].new = reader[u].new
             /\ reader'[u].todo = reader[u].todo
             /\ reader'[u].pc = IF u = t THEN step ELSE reader[u].pc
  BY <1>2 DEF TypeOK, ReaderType
<1>4. TypeOK'
  <2>1. reader' \in [Readers -> ReaderType]
    BY <1>2, <1>3 DEF TypeOK
  <2> QED BY <1>1, <1>2, <1>3, <2>1 DEF TypeOK, worldVars, dataVars
<1>5. WatchesOwnObject'
  BY <1>1, <1>2, <1>3 DEF WatchesOwnObject, dataVars
<1>6. NothingOverwritten'
  BY <1>1, <1>2, <1>3 DEF NothingOverwritten
<1>7. NoOrphanWatch'
  BY <1>1, <1>3, RefsGrow, GrowthKeeps
<1> QED BY <1>4, <1>5, <1>6, <1>7

\* The answer of the bus, and the copy of the cache, are new references only.
LEMMA CollectingKeeps ==
  ASSUME WatchInv, NEW t \in Readers, Query(t) \/ Copy(t)
  PROVE  WatchInv'
<1> USE DEF WatchInv
<1>1. /\ UNCHANGED <<present, world, inbox, instances, dataVars, listeners,
                     toCleanupInstances, initialized, cachingInProgress,
                     registered, handler, observing>>
      /\ hasErrors' \in BOOLEAN /\ events' \in 0..MaxEvents
  BY CacheAssumption DEF Query, Copy, flagVars, worldVars, TypeOK
<1>2. PICK r \in ReaderType :
        /\ reader' = [reader EXCEPT ![t] = r]
        /\ r.new = reader[t].new /\ reader[t].holds = {}
        /\ \/ reader[t].pc = "query" /\ r.pc = "create"
              /\ r.holds = {} /\ r.todo \subseteq Objects
           \/ reader[t].pc = "copy" /\ r.pc = "verify" /\ r.todo \subseteq Instances
  <2> DEFINE snapshot == Range(instances) \ {None}
  <2>1. snapshot \subseteq Instances
    BY DEF TypeOK, Range
  <2>2. CASE Query(t)
    <3>1. PICK S \in SUBSET Objects :
            reader' = [reader EXCEPT ![t].pc = "create", ![t].todo = S]
      BY <2>2 DEF Query, TypeOK
    <3> DEFINE r == [reader[t] EXCEPT !.pc = "create", !.todo = S]
    <3>2. reader' = [reader EXCEPT ![t] = r] /\ reader[t].pc = "query"
      BY <2>2, <3>1 DEF Query, At, TypeOK
    <3>3. r \in ReaderType
      BY DEF TypeOK, ReaderType, ReaderSteps, FillSteps
    <3>4. /\ r.new = reader[t].new /\ reader[t].holds = {} /\ r.holds = {}
          /\ r.pc = "create" /\ r.todo \subseteq Objects
      BY <3>2 DEF NothingOverwritten, TypeOK, ReaderType
    <3> QED BY <3>2, <3>3, <3>4
  <2>3. CASE Copy(t)
    <3> DEFINE r == [reader[t] EXCEPT !.pc = "verify", !.holds = snapshot,
                                      !.todo = snapshot]
    <3>1. reader' = [reader EXCEPT ![t] = r] /\ reader[t].pc = "copy"
      BY <2>3 DEF Copy, At, TypeOK
    <3>2. r \in ReaderType
      BY <2>1 DEF TypeOK, ReaderType, ReaderSteps
    <3>3. /\ r.new = reader[t].new /\ reader[t].holds = {}
          /\ r.pc = "verify" /\ r.todo \subseteq Instances
      BY <2>1, <3>1 DEF NothingOverwritten, TypeOK, ReaderType
    <3> QED BY <3>1, <3>2, <3>3
  <2> QED BY <2>2, <2>3
<1>3. ASSUME NEW u \in Readers
      PROVE  reader'[u] = IF u = t THEN r ELSE reader[u]
  BY <1>2 DEF TypeOK
<1>4. TypeOK'
  <2>1. reader' \in [Readers -> ReaderType]
    BY <1>2 DEF TypeOK
  <2> QED BY <1>1, <1>2, <1>3, <2>1 DEF TypeOK, dataVars
<1>5. WatchesOwnObject'
  BY <1>1, <1>2, <1>3 DEF WatchesOwnObject, dataVars
<1>6. NothingOverwritten'
  BY <1>1, <1>2, <1>3 DEF NothingOverwritten
<1>7. NoOrphanWatch'
  BY <1>1, <1>2, <1>3, RefsGrow, GrowthKeeps
<1> QED BY <1>4, <1>5, <1>6, <1>7

\* A new instance takes the place of one that nobody refers to or watches for:
\* whatever is referred to or watched stays what it is about.
LEMMA NewInstanceIsFresh ==
  ASSUME TypeOK, NEW i \in Instances, NEW o \in Objects, NewInstance(i, o)
  PROVE  /\ object' \in [Instances -> Objects] /\ field' \in [Instances -> Int]
         /\ state' \in [Instances -> BOOLEAN] /\ object'[i] = o
         /\ \A j \in Instances : j \in Referenced => object'[j] = object[j]
         /\ \A p \in Objects : \A j \in listeners[p] : object'[j] = object[j]
<1> DEFINE v == IF o \in present THEN world[o] ELSE NoValue
           b == o \in present
<1>1. /\ object' = [object EXCEPT ![i] = o] /\ field' = [field EXCEPT ![i] = v]
      /\ state' = [state EXCEPT ![i] = b] /\ Fresh(i)
  BY DEF NewInstance
<1>2. v \in Int /\ b \in BOOLEAN
  BY DEF TypeOK, NoValue
<1> HIDE DEF v, b
<1> QED BY <1>1, <1>2 DEF Fresh, TypeOK

\* createInstance() during populate.
LEMMA CreateKeeps ==
  ASSUME WatchInv, NEW t \in Readers, Create(t)
  PROVE  WatchInv'
<1> USE DEF WatchInv
<1>1. UNCHANGED <<worldVars, inbox, instances, listeners, toCleanupInstances,
                  flagVars, registered, handler, observing>>
      /\ reader[t].pc = "create"
  BY DEF Create, At
<1>2. PICK o \in reader[t].todo, i \in Instances :
        /\ NewInstance(i, o)
        /\ reader' = [reader EXCEPT ![t].pc = "bind", ![t].new = i,
                                    ![t].todo = @ \ {o}]
  BY DEF Create
<1>3. o \in Objects /\ reader[t].new = None /\ i # None
  BY <1>1, CacheAssumption DEF TypeOK, NothingOverwritten
<1> DEFINE r == [reader[t] EXCEPT !.pc = "bind", !.new = i, !.todo = @ \ {o}]
<1>4. /\ r \in ReaderType /\ r.pc = "bind" /\ r.new = i
      /\ r.holds = reader[t].holds /\ r.todo \subseteq Objects
  BY <1>1 DEF TypeOK, ReaderType, ReaderSteps, FillSteps
<1>5. /\ reader' \in [Readers -> ReaderType]
      /\ \A u \in Readers : reader'[u] = IF u = t THEN r ELSE reader[u]
  BY <1>2, <1>4 DEF TypeOK
<1> HIDE DEF r
<1>6. /\ object' \in [Instances -> Objects] /\ field' \in [Instances -> Int]
      /\ state' \in [Instances -> BOOLEAN]
      /\ \A j \in Instances : j \in Referenced => object'[j] = object[j]
      /\ \A p \in Objects : \A j \in listeners[p] : object'[j] = object[j]
  BY <1>2, <1>3, NewInstanceIsFresh
<1>7. TypeOK'
  BY <1>1, <1>4, <1>5, <1>6 DEF TypeOK, worldVars, flagVars
<1>8. WatchesOwnObject'
  <2>1. handler.pc = "merge" => handler.new \in Referenced \cap Instances
    BY RefsAre DEF Referenced, WatchesOwnObject, TypeOK, HandlerType
  <2> QED BY <1>1, <1>3, <1>4, <1>5, <1>6, <2>1 DEF WatchesOwnObject
<1>9. NothingOverwritten'
  BY <1>1, <1>4, <1>5 DEF NothingOverwritten
<1>10. NoOrphanWatch'
  BY <1>1, <1>3, <1>4, <1>5, RefsGrow, GrowthKeeps
<1> QED BY <1>7, <1>8, <1>9, <1>10

\* bindListeners(): the match is kept under the object of the new instance,
\* which the query goes on holding.
LEMMA BindKeeps ==
  ASSUME WatchInv, NEW t \in Readers, Bind(t)
  PROVE  WatchInv'
<1> USE DEF WatchInv
<1> DEFINE i == reader[t].new
           r == [reader[t] EXCEPT !.pc = "create", !.new = None,
                                  !.holds = @ \cup {i}]
<1>1. /\ UNCHANGED <<worldVars, inbox, instances, dataVars, toCleanupInstances,
                     flagVars, registered, handler, observing>>
      /\ reader[t].pc = "bind"
      /\ listeners' = [listeners EXCEPT ![object[i]] = @ \cup {i}]
      /\ reader' = [reader EXCEPT ![t] = r]
  BY DEF Bind, At, TypeOK
<1>2. i \in Instances /\ i # None /\ object[i] \in Objects
  BY <1>1, CacheAssumption DEF TypeOK, ReaderType, WatchesOwnObject
<1>3. /\ r \in ReaderType /\ r.pc = "create" /\ r.new = None
      /\ r.holds = reader[t].holds \cup {i} /\ r.todo \subseteq Objects
  BY <1>1, <1>2 DEF TypeOK, ReaderType, ReaderSteps, FillSteps
<1>4. /\ reader' \in [Readers -> ReaderType]
      /\ \A u \in Readers : reader'[u] = IF u = t THEN r ELSE reader[u]
  BY <1>1, <1>3 DEF TypeOK
<1> HIDE DEF r
<1>5. /\ listeners' \in [Objects -> SUBSET Instances]
      /\ \A p \in Objects : listeners'[p] =
            IF p = object[i] THEN listeners[p] \cup {i} ELSE listeners[p]
  BY <1>1, <1>2 DEF TypeOK
<1>6. TypeOK'
  BY <1>1, <1>3, <1>4, <1>5 DEF TypeOK, worldVars, flagVars, dataVars
<1>7. WatchesOwnObject'
  BY <1>1, <1>3, <1>4, <1>5 DEF WatchesOwnObject, dataVars
<1>8. NothingOverwritten'
  BY <1>1, <1>3, <1>4 DEF NothingOverwritten
<1>9. NoOrphanWatch'
  <2>1. Referenced \subseteq Referenced'
    BY <1>1, <1>3, <1>4, RefsGrow
  <2>2. i \in Referenced'
    BY <1>2, <1>3, <1>4, RefsAre DEF Referenced
  <2> QED BY <1>1, <1>5, <2>1, <2>2 DEF NoOrphanWatch
<1> QED BY <1>6, <1>7, <1>8, <1>9

\* verifyState(): an instance of the copied list is asked for again.
LEMMA VerifyKeeps ==
  ASSUME WatchInv, NEW t \in Readers, Verify(t)
  PROVE  WatchInv'
<1> USE DEF WatchInv
<1>1. /\ UNCHANGED <<worldVars, inbox, instances, dataVars, listeners,
                     toCleanupInstances, flagVars, registered, handler, observing>>
      /\ reader[t].pc = "verify" /\ reader[t].new = None
      /\ reader[t].todo \subseteq Instances
  BY DEF Verify, At, NothingOverwritten, TypeOK
<1>2. PICK i \in reader[t].todo :
        \/ reader' = [reader EXCEPT ![t].todo = @ \ {i}]
        \/ reader' = [reader EXCEPT ![t].pc = "fill", ![t].new = i,
                                    ![t].reply = world[object[i]]]
  BY DEF Verify
<1> DEFINE dropped == [reader[t] EXCEPT !.todo = @ \ {i}]
           asked == [reader[t] EXCEPT !.pc = "fill", !.new = i,
                                      !.reply = world[object[i]]]
<1>3. /\ dropped \in ReaderType /\ dropped.pc = "verify" /\ dropped.new = None
      /\ dropped.holds = reader[t].holds /\ dropped.todo \subseteq Instances
  BY <1>1 DEF TypeOK, ReaderType
<1>4. /\ asked \in ReaderType /\ asked.pc = "fill"
      /\ asked.holds = reader[t].holds /\ asked.todo \subseteq Instances
  <2>1. i \in Instances /\ world[object[i]] \in Int /\ "fill" \in ReaderSteps
    BY <1>1 DEF TypeOK, ReaderSteps
  <2>2. reader[t] \in ReaderType
    BY DEF TypeOK
  <2> QED BY <1>1, <2>1, <2>2 DEF ReaderType
<1>5. PICK r \in {dropped, asked} : reader' = [reader EXCEPT ![t] = r]
  BY <1>2 DEF TypeOK
<1> HIDE DEF dropped, asked
<1>6. /\ r \in ReaderType /\ r.holds = reader[t].holds
      /\ r.todo \subseteq Instances
      /\ r.pc = "fill" \/ (r.pc = "verify" /\ r.new = None)
  BY <1>3, <1>4, <1>5
<1>7. /\ reader' \in [Readers -> ReaderType]
      /\ \A u \in Readers : reader'[u] = IF u = t THEN r ELSE reader[u]
  BY <1>5, <1>6 DEF TypeOK
<1>8. TypeOK'
  BY <1>1, <1>6, <1>7 DEF TypeOK, worldVars, flagVars, dataVars
<1>9. WatchesOwnObject'
  BY <1>1, <1>6, <1>7 DEF WatchesOwnObject, dataVars
<1>10. NothingOverwritten'
  BY <1>1, <1>6, <1>7 DEF NothingOverwritten
<1>11. NoOrphanWatch'
  BY <1>1, <1>6, <1>7, RefsGrow, GrowthKeeps
<1> QED BY <1>8, <1>9, <1>10, <1>11

\* What Destructors does to toCleanupInstances.
LEMMA DestructorsType ==
  ASSUME TypeOK, Destructors
  PROVE  /\ toCleanupInstances' \subseteq Objects
         /\ toCleanupInstances \subseteq toCleanupInstances'
<1>1. ASSUME NEW i \in Referenced PROVE i \in Instances
  <2>1. /\ i # None
        /\ \/ \E o \in DOMAIN instances : i = instances[o]
           \/ \E t \in Readers : i \in reader[t].holds \/ i = reader[t].new
           \/ i = handler.new \/ i = handler.found
    BY <1>1, RefsAre DEF Referenced
  <2>2. CASE \E o \in DOMAIN instances : i = instances[o]
    BY <2>1, <2>2 DEF TypeOK
  <2>3. CASE \E t \in Readers : i \in reader[t].holds \/ i = reader[t].new
    BY <2>1, <2>3 DEF TypeOK, ReaderType
  <2>4. CASE i = handler.new \/ i = handler.found
    BY <2>1, <2>4 DEF TypeOK, HandlerType
  <2> QED BY <2>1, <2>2, <2>3, <2>4
<1> QED BY <1>1 DEF Destructors, MarkInstances, Referenced, TypeOK

\* The steps of a request thread that drop references: resetCache, the end of
\* populate, of a request, an exception, an instance filled again.
LEMMA DroppingKeeps ==
  ASSUME WatchInv, NEW t \in Readers,
         Reset(t) \/ Throw(t) \/ Store(t) \/ Fill(t) \/ Done(t)
  PROVE  WatchInv'
<1> USE DEF WatchInv
<1>1. /\ UNCHANGED <<worldVars, inbox, object, listeners, flagVars, handler,
                     observing>>
      /\ Destructors
  BY DEF Reset, Throw, Store, Fill, Done, dataVars
<1>2. registered' \in Nat /\ registered <= registered'
  BY DEF Reset, Throw, Store, Fill, Done, TypeOK
<1>3. instances' \in [Objects -> Instances \cup {None}]
  <2>1. CASE Store(t)
    <3> DEFINE mine(o) == {i \in reader[t].holds : object[i] = o}
    <3>1. instances' = [o \in Objects |-> IF mine(o) = {} THEN instances[o]
                                          ELSE CHOOSE i \in mine(o) : TRUE]
      BY <2>1 DEF Store
    <3>2. ASSUME NEW o \in Objects, mine(o) # {}
          PROVE  (CHOOSE i \in mine(o) : TRUE) \in Instances
      <4>1. (CHOOSE i \in mine(o) : TRUE) \in mine(o)
        BY <3>2
      <4> QED BY <4>1 DEF TypeOK, ReaderType
    <3> HIDE DEF mine
    <3> QED BY <3>1, <3>2 DEF TypeOK
  <2>2. CASE Reset(t)
    BY <2>2 DEF Reset
  <2>3. CASE Throw(t) \/ Fill(t) \/ Done(t)
    BY <2>3 DEF Throw, Fill, Done, TypeOK
  <2> QED BY <2>1, <2>2, <2>3
<1>4. field' \in [Instances -> Int] /\ state' \in [Instances -> BOOLEAN]
  <2>1. CASE Fill(t)
    BY <2>1 DEF Fill, TypeOK, ReaderType
  <2>2. CASE Reset(t) \/ Throw(t) \/ Store(t) \/ Done(t)
    BY <2>2 DEF Reset, Throw, Store, Done, dataVars, TypeOK
  <2> QED BY <2>1, <2>2
<1>5. PICK r \in ReaderType :
        /\ reader' = [reader EXCEPT ![t] = r]
        /\ r.new = None
        /\ \/ r.holds = {} /\ r.pc \in {"idle", "query", "finish", "copy"}
           \/ r.pc = "verify" /\ r.todo \subseteq Instances
  <2> DEFINE reset == [reader[t] EXCEPT !.pc = "query"]
             stored(step) == [reader[t] EXCEPT !.pc = step, !.holds = {}]
             filled == [reader[t] EXCEPT !.pc = "verify", !.new = None,
                            !.reply = NoValue, !.todo = @ \ {reader[t].new}]
  <2>1. CASE Reset(t)
    <3>1. reader[t].holds = {} /\ reader[t].new = None
      BY <2>1 DEF Reset, At, NothingOverwritten
    <3>2. reader' = [reader EXCEPT ![t] = reset]
      BY <2>1 DEF Reset, Goto, TypeOK
    <3>3. /\ reset \in ReaderType /\ reset.pc = "query"
          /\ reset.holds = {} /\ reset.new = None
      BY <3>1 DEF TypeOK, ReaderType, ReaderSteps, FillSteps
    <3> HIDE DEF reset
    <3> QED BY <3>2, <3>3
  <2>2. CASE Store(t)
    <3>1. PICK step \in {"finish", "copy", "idle"} :
            reader' = [reader EXCEPT ![t].pc = step, ![t].holds = {}]
      BY <2>2 DEF Store, AfterPopulate
    <3>2. reader' = [reader EXCEPT ![t] = stored(step)] /\ reader[t].new = None
      BY <2>2, <3>1 DEF Store, At, NothingOverwritten, TypeOK
    <3>3. /\ stored(step) \in ReaderType /\ stored(step).pc = step
          /\ stored(step).holds = {} /\ stored(step).new = None
      BY <3>2 DEF TypeOK, ReaderType, ReaderSteps, FillSteps
    <3> HIDE DEF stored
    <3> QED BY <3>2, <3>3
  <2>3. CASE Fill(t)
    <3>1. reader' = [reader EXCEPT ![t] = filled]
      BY <2>3 DEF Fill, TypeOK
    <3>2. reader[t].todo \subseteq Instances
      BY <2>3 DEF Fill, At, TypeOK
    <3>3. /\ filled \in ReaderType /\ filled.pc = "verify"
          /\ filled.todo \subseteq Instances /\ filled.new = None
      <4>1. reader[t] \in ReaderType /\ NoValue \in Int /\ "verify" \in ReaderSteps
        BY DEF TypeOK, NoValue, ReaderSteps
      <4> QED BY <3>2, <4>1 DEF ReaderType
    <3> HIDE DEF filled
    <3> QED BY <3>1, <3>3
  <2>4. CASE Throw(t) \/ Done(t)
    <3>1. /\ IdleReader \in ReaderType /\ IdleReader.pc = "idle"
          /\ IdleReader.holds = {} /\ IdleReader.new = None
      BY DEF IdleReader, ReaderType, ReaderSteps, FillSteps, NoValue
    <3> QED BY <2>4, <3>1 DEF Throw, Done
  <2> QED BY <2>1, <2>2, <2>3, <2>4
<1>6. /\ reader' \in [Readers -> ReaderType]
      /\ \A u \in Readers : reader'[u] = IF u = t THEN r ELSE reader[u]
  BY <1>5 DEF TypeOK
<1>7. TypeOK'
  <2>1. handler.left <= registered'
    BY <1>2 DEF TypeOK, HandlerType
  <2> QED
    BY <1>1, <1>2, <1>3, <1>4, <1>5, <1>6, <2>1, DestructorsType
    DEF TypeOK, worldVars, flagVars
<1>8. WatchesOwnObject'
  BY <1>1, <1>5, <1>6 DEF WatchesOwnObject
<1>9. NothingOverwritten'
  BY <1>1, <1>5, <1>6 DEF NothingOverwritten
<1>10. NoOrphanWatch'
  BY <1>1, DestructorsKeep DEF NoOrphanWatch, WatchesOwnObject
<1> QED BY <1>7, <1>8, <1>9, <1>10

\* A handler that has no reference: idle, or about to take the signal.
Unloaded(h) ==
    /\ h \in HandlerType /\ h.left <= registered
    /\ h.pc = "idle" <=> h.left = 0
    /\ h.pc # "idle" => h.obj \in Objects
    /\ h.pc # "merge" /\ h.new = None /\ h.found = None

\* What is left of the queue is a queue of signals.
LEMMA TailOfInbox ==
  ASSUME TypeOK, inbox # <<>>
  PROVE  Tail(inbox) \in Seq(Signal)
BY DEF TypeOK

\* The next handler starts with nothing.
LEMMA NextHandlerUnloaded ==
  ASSUME TypeOK, handler.pc # "idle"
  PROVE  Unloaded(NextHandler(handler))
<1>1. /\ handler \in HandlerType /\ handler.left \in Nat \ {0}
      /\ handler.left <= registered /\ registered \in Nat
      /\ handler.obj \in Objects
  BY DEF TypeOK, HandlerType
<1>2. CASE handler.left = 1
  BY <1>1, <1>2 DEF NextHandler, IdleHandler, HandlerType, Unloaded
<1>3. CASE handler.left # 1
  <2> DEFINE h == [handler EXCEPT !.pc = "introspect", !.left = @ - 1,
                                  !.new = None, !.found = None]
  <2>1. NextHandler(handler) = h
    BY <1>3 DEF NextHandler
  <2>2. /\ h \in HandlerType /\ h.left = handler.left - 1 /\ h.obj = handler.obj
        /\ h.pc = "introspect" /\ h.new = None /\ h.found = None
    <3>1. /\ "introspect" \in {"idle", "introspect", "create", "merge"}
          /\ None \in Instances \cup {None}
          /\ handler.left - 1 \in Nat
      BY <1>1
    <3> QED BY <1>1, <3>1 DEF HandlerType
  <2> HIDE DEF h
  <2> QED BY <1>1, <1>3, <2>1, <2>2 DEF Unloaded
<1> QED BY <1>2, <1>3

\* Nothing but values, the queue of signals and what the services export
\* changes.
LEMMA ValuesKeep ==
  ASSUME WatchInv, Observe \/ DispatchChanged \/ Services
  PROVE  WatchInv'
<1> USE DEF WatchInv
<1>1. /\ UNCHANGED <<instances, object, listeners, toCleanupInstances, state,
                     flagVars, registered, reader, handler>>
      /\ observing' \in BOOLEAN
  BY DEF Observe, DispatchChanged, Dispatching, Services, dataVars, TypeOK
<1>2. /\ inbox' \in Seq(Signal) /\ field' \in [Instances -> Int]
      /\ present' \subseteq Objects /\ world' \in [Objects -> Nat]
      /\ events' \in 0..MaxEvents
  <2>1. CASE Observe
    BY <2>1 DEF Observe, worldVars, dataVars, TypeOK
  <2>2. CASE DispatchChanged
    <3>1. Head(inbox) \in Signal /\ inbox' \in Seq(Signal)
      BY <2>2 DEF DispatchChanged, Dispatching, TypeOK
    <3>2. Head(inbox).val \in Int
      BY <3>1 DEF Signal
    <3> QED BY <2>2, <3>1, <3>2 DEF DispatchChanged, worldVars, TypeOK
  <2>3. CASE Services
    <3>1. PICK o \in Objects : Appear(o) \/ Vanish(o) \/ Change(o)
      BY <2>3 DEF Services
    <3>2. /\ present' \subseteq Objects /\ world' \in [Objects -> Nat]
          /\ world[o] \in Nat
      BY <3>1 DEF Appear, Vanish, Change, TypeOK
    <3>3. ASSUME NEW k \in {"added", "removed", "changed"}, NEW v \in Int
          PROVE  Emit(k, o, v) \in Seq(Signal)
      BY DEF Emit, Signal, TypeOK
    <3>4. inbox' \in Seq(Signal)
      <4>1. NoValue \in Int /\ world[o] + 1 \in Int /\ inbox \in Seq(Signal)
        BY <3>2 DEF NoValue, TypeOK
      <4>2. CASE Appear(o)
        BY <3>3, <4>1, <4>2 DEF Appear
      <4>3. CASE Vanish(o)
        BY <3>3, <4>1, <4>3 DEF Vanish
      <4>4. CASE Change(o)
        BY <3>3, <4>1, <4>4 DEF Change
      <4> QED BY <3>1, <4>2, <4>3, <4>4
    <3>5. events' \in 0..MaxEvents /\ UNCHANGED field
      BY <2>3, CacheAssumption DEF Services, dataVars, TypeOK
    <3> QED BY <3>2, <3>4, <3>5 DEF TypeOK
  <2> QED BY <2>1, <2>2, <2>3
<1>3. TypeOK'
  BY <1>1, <1>2 DEF TypeOK, flagVars
<1>4. WatchesOwnObject' /\ NothingOverwritten'
  BY <1>1 DEF WatchesOwnObject, NothingOverwritten
<1>5. NoOrphanWatch'
  BY <1>1 DEF NoOrphanWatch, Referenced
<1> QED BY <1>3, <1>4, <1>5

\* A signal is taken up, or found to be about an object that is gone.
LEMMA TakingUpKeeps ==
  ASSUME WatchInv, DispatchAdded \/ HandlerIntrospect
  PROVE  WatchInv'
<1> USE DEF WatchInv
<1>1. /\ UNCHANGED <<worldVars, instances, dataVars, listeners, flagVars,
                     toCleanupInstances, registered, reader, observing>>
      /\ handler.pc # "merge"
  BY DEF DispatchAdded, Dispatching, BusFree, HandlerIntrospect
<1>2. inbox' \in Seq(Signal)
  <2>1. CASE DispatchAdded
    BY <2>1, TailOfInbox DEF DispatchAdded, Dispatching
  <2>2. CASE HandlerIntrospect
    BY <2>2 DEF HandlerIntrospect, TypeOK
  <2> QED BY <2>1, <2>2
<1>3. Unloaded(handler')
  <2>1. CASE DispatchAdded
    <3>1. Head(inbox) \in Signal /\ registered \in Nat
      BY <2>1 DEF DispatchAdded, Dispatching, TypeOK
    <3>2. Head(inbox).obj \in Objects
      BY <3>1 DEF Signal
    <3>3. CASE registered = 0
      BY <2>1, <3>1, <3>3 DEF DispatchAdded, IdleHandler, HandlerType, Unloaded
    <3>4. CASE registered # 0
      <4>1. handler' = [IdleHandler EXCEPT !.pc = "introspect",
                            !.left = registered, !.obj = Head(inbox).obj]
        BY <2>1, <3>4 DEF DispatchAdded
      <4>2. /\ "introspect" \in {"idle", "introspect", "create", "merge"}
            /\ Head(inbox).obj \in Objects \cup {None}
            /\ None \in Instances \cup {None}
        BY <3>2
      <4>3. handler' = [pc |-> "introspect", obj |-> Head(inbox).obj,
                        left |-> registered, new |-> None, found |-> None]
        BY <4>1 DEF IdleHandler
      <4>4. handler' \in HandlerType
        BY <3>1, <4>2, <4>3 DEF HandlerType
      <4> QED BY <3>1, <3>2, <3>4, <4>3, <4>4 DEF Unloaded
    <3> QED BY <3>3, <3>4
  <2>2. CASE HandlerIntrospect /\ handler.obj \in present
    <3>1. handler' = [handler EXCEPT !.pc = "create"] /\ handler.pc = "introspect"
      BY <2>2 DEF HandlerIntrospect
    <3>2. handler.new = None /\ handler.found = None
      BY <3>1 DEF NothingOverwritten
    <3> QED BY <3>1, <3>2 DEF TypeOK, HandlerType, Unloaded
  <2>3. CASE HandlerIntrospect /\ handler.obj \notin present
    BY <2>3, NextHandlerUnloaded DEF HandlerIntrospect
  <2> QED BY <2>1, <2>2, <2>3
<1>4. TypeOK'
  BY <1>1, <1>2, <1>3 DEF TypeOK, Unloaded, worldVars, dataVars, flagVars
<1>5. WatchesOwnObject' /\ NothingOverwritten'
  BY <1>1, <1>3 DEF WatchesOwnObject, NothingOverwritten, Unloaded, dataVars
<1>6. NoOrphanWatch'
  BY <1>1, RefsGrow, GrowthKeeps DEF NothingOverwritten
<1> QED BY <1>4, <1>5, <1>6

\* createInstance() inside the handler.
LEMMA HandlerCreateKeeps ==
  ASSUME WatchInv, HandlerCreate
  PROVE  WatchInv'
<1> USE DEF WatchInv
<1>1. /\ UNCHANGED <<worldVars, inbox, instances, listeners, flagVars,
                     toCleanupInstances, registered, reader, observing>>
      /\ handler.pc = "create" /\ handler.new = None /\ handler.found = None
      /\ handler.obj \in Objects
  BY DEF HandlerCreate, NothingOverwritten, TypeOK
<1>2. PICK i \in Instances :
        /\ NewInstance(i, handler.obj)
        /\ handler' = [handler EXCEPT !.pc = "merge", !.new = i,
                                      !.found = instances[handler.obj]]
  BY DEF HandlerCreate
<1>3. /\ handler' \in HandlerType /\ handler'.pc = "merge" /\ handler'.new = i
      /\ handler'.left = handler.left /\ handler'.obj = handler.obj
  BY <1>1, <1>2 DEF TypeOK, HandlerType
<1>4. /\ object' \in [Instances -> Objects] /\ field' \in [Instances -> Int]
      /\ state' \in [Instances -> BOOLEAN] /\ object'[i] = handler.obj
      /\ \A p \in Objects : \A j \in listeners[p] : object'[j] = object[j]
  BY <1>1, <1>2, NewInstanceIsFresh
<1>5. TypeOK'
  BY <1>1, <1>3, <1>4 DEF TypeOK, worldVars, flagVars
<1>6. WatchesOwnObject'
  BY <1>1, <1>3, <1>4, CacheAssumption DEF WatchesOwnObject
<1>7. NothingOverwritten'
  BY <1>1, <1>3 DEF NothingOverwritten
<1>8. NoOrphanWatch'
  BY <1>1, RefsGrow, GrowthKeeps
<1> QED BY <1>5, <1>6, <1>7, <1>8

\* A handler ends: its instance is cached and watched, or only lends its
\* metadata and is destroyed.
LEMMA MergingKeeps ==
  ASSUME WatchInv, HandlerInsert \/ HandlerUpdate
  PROVE  WatchInv'
<1> USE DEF WatchInv
<1> DEFINE i == handler.new
<1>1. /\ UNCHANGED <<worldVars, inbox, object, flagVars, registered, reader,
                     observing>>
      /\ Destructors /\ handler.pc = "merge" /\ handler' = NextHandler(handler)
  BY DEF HandlerInsert, HandlerUpdate
<1>2. /\ i \in Instances /\ i # None /\ object[i] = handler.obj
      /\ handler.obj \in Objects
  BY <1>1 DEF TypeOK, HandlerType, WatchesOwnObject
<1>3. Unloaded(handler')
  BY <1>1, NextHandlerUnloaded
<1>4. /\ instances' \in [Objects -> Instances \cup {None}]
      /\ field' \in [Instances -> Int] /\ state' \in [Instances -> BOOLEAN]
  <2>1. CASE HandlerInsert
    <3>1. field' \in [Instances -> Int]
      BY <1>2, <2>1 DEF HandlerInsert, TypeOK
    <3> QED BY <1>2, <2>1, <3>1 DEF HandlerInsert, TypeOK
  <2>2. CASE HandlerUpdate
    BY <2>2 DEF HandlerUpdate, TypeOK
  <2> QED BY <2>1, <2>2
<1>5. /\ listeners' \in [Objects -> SUBSET Instances]
      /\ \A p \in Objects : \A j \in listeners'[p] :
            j \in listeners[p] \/ (j = i /\ p = handler.obj)
  <2>1. CASE HandlerInsert
    <3>1. listeners' = [listeners EXCEPT ![handler.obj] = @ \cup {i}]
      BY <2>1 DEF HandlerInsert
    <3> QED BY <1>2, <3>1 DEF TypeOK
  <2>2. CASE HandlerUpdate
    BY <2>2 DEF HandlerUpdate, TypeOK
  <2> QED BY <2>1, <2>2
<1>6. i \in Referenced
  BY <1>2, RefsAre DEF Referenced
<1>7. \A p \in Objects : \A j \in listeners'[p] :
            object[j] = p /\ (j \in Referenced \/ p \in toCleanupInstances)
  BY <1>2, <1>5, <1>6 DEF WatchesOwnObject, NoOrphanWatch
<1>8. TypeOK'
  BY <1>1, <1>3, <1>4, <1>5, DestructorsType
  DEF TypeOK, Unloaded, worldVars, flagVars
<1>9. WatchesOwnObject' /\ NothingOverwritten'
  BY <1>1, <1>3, <1>7 DEF WatchesOwnObject, NothingOverwritten, Unloaded
<1>10. NoOrphanWatch'
  BY <1>1, <1>7, DestructorsKeep
<1> QED BY <1>8, <1>9, <1>10

\* removeInstance() drops the cache's reference.
LEMMA DispatchRemovedKeeps ==
  ASSUME WatchInv, DispatchRemoved
  PROVE  WatchInv'
<1> USE DEF WatchInv
<1>1. /\ UNCHANGED <<worldVars, dataVars, listeners, flagVars, registered, reader,
                     handler, observing>>
      /\ Destructors
  BY DEF DispatchRemoved
<1>2. inbox' \in Seq(Signal) /\ instances' \in [Objects -> Instances \cup {None}]
  BY TailOfInbox DEF DispatchRemoved, Dispatching, TypeOK
<1>3. TypeOK'
  BY <1>1, <1>2, DestructorsType DEF TypeOK, worldVars, dataVars, flagVars
<1>4. WatchesOwnObject' /\ NothingOverwritten'
  BY <1>1 DEF WatchesOwnObject, NothingOverwritten, dataVars
<1>5. NoOrphanWatch'
  BY <1>1, DestructorsKeep DEF NoOrphanWatch, WatchesOwnObject
<1> QED BY <1>3, <1>4, <1>5

\* The pruning drops the whole entry of each queued hash: a match that stays is
\* one whose hash was not queued, and so of a living instance.
LEMMA CleanupKeeps ==
  ASSUME WatchInv, Cleanup
  PROVE  WatchInv'
<1> USE DEF WatchInv
<1>1. /\ UNCHANGED <<worldVars, inbox, instances, dataVars, flagVars, registered,
                     reader, handler, observing>>
      /\ listeners' = Pruned /\ toCleanupInstances' = {}
  BY DEF Cleanup
<1>2. \A o \in Objects :
        listeners'[o] = IF o \in toCleanupInstances THEN {} ELSE listeners[o]
  BY <1>1 DEF Pruned
<1>3. TypeOK'
  BY <1>1, <1>2 DEF TypeOK, Pruned, worldVars, dataVars, flagVars
<1>4. WatchesOwnObject' /\ NothingOverwritten'
  BY <1>1, <1>2 DEF WatchesOwnObject, NothingOverwritten, dataVars
<1>5. NoOrphanWatch'
  BY <1>1, <1>2 DEF NoOrphanWatch, Referenced
<1> QED BY <1>3, <1>4, <1>5

\* Every step of the services, the dbus thread and the request threads.
LEMMA WatchInvNext == ASSUME WatchInv, [Next]_vars PROVE WatchInv'
<1>1. CASE Services \/ BusStep
  BY <1>1, ValuesKeep, TakingUpKeeps, HandlerCreateKeeps, MergingKeeps,
     DispatchRemovedKeeps, CleanupKeeps DEF BusStep
<1>2. ASSUME NEW t \in Readers, ReaderStep(t) PROVE WatchInv'
  BY <1>2, MovingKeeps, CollectingKeeps, CreateKeeps, BindKeeps, VerifyKeeps,
     DroppingKeeps DEF ReaderStep
<1>3. CASE UNCHANGED vars
  BY <1>3 DEF vars, worldVars, dataVars, flagVars, WatchInv, TypeOK,
              WatchesOwnObject, NothingOverwritten, NoOrphanWatch, Referenced
<1> QED BY <1>1, <1>2, <1>3 DEF Next

\* The cache is well-typed, matches are kept under their own object and no
\* reference is dropped silently.
THEOREM WatchInvariant == Spec => []WatchInv
<1>1. WatchInv /\ [Next]_vars => WatchInv'
  BY WatchInvNext
<1> QED BY <1>1, WatchInvInit, PTL DEF Spec

\* No watcher leaks, however destructors on request threads, in handlers and in
\* resetCache fall between the other steps.
THEOREM NoWatchLeaks == Spec => []NoOrphanWatch
<1>1. WatchInv => NoOrphanWatch
  BY DEF WatchInv
<1> QED BY <1>1, WatchInvariant, PTL

\* The types of the cache, of the walk over the handlers and of what every
\* request thread works on.
THEOREM CacheTypes == Spec => []TypeOK
<1>1. WatchInv => TypeOK
  BY DEF WatchInv
<1> QED BY <1>1, WatchInvariant, PTL

-----------------------------------------------------------------------------
(* SettledIsPresent: an initialized entity caches what is there *)

\* An object has come or gone and the dbus thread does not know.
Told(k, o) == inbox[k].kind \in {"added", "removed"} /\ inbox[k].obj = o
Pending(o) == \E k \in 1..Len(inbox) : Told(k, o)

\* The last of these signals about an object says how it is now.
LastTells ==
    \A o \in Objects : \A k \in 1..Len(inbox) :
        Told(k, o) /\ (\A j \in 1..Len(inbox) : j > k => ~Told(j, o))
            => (inbox[k].kind = "added" <=> o \in present)

\* populate() is under way on t; its query has been configured.
Filling(t) == reader[t].pc \in FillSteps \cup {"mark"}
Configured == {"query", "create", "bind", "finish", "mark"}

\* The entity is filled once, by the main thread, before the dbus thread runs.
StartInv ==
    /\ ~hasErrors
    /\ \A t \in Readers : Filling(t) => t = Main /\ ~initialized
    /\ observing => initialized
    /\ ~observing => /\ handler.pc = "idle"
                     /\ \A t \in Readers : Filling(t) \/ At(t, "idle")
    /\ registered > 0 <=> initialized \/ reader[Main].pc \in Configured

\* What the query still has to create an instance of, or has created.
Gathered(t) ==
    reader[t].todo \cup
    {object[i] : i \in reader[t].holds \cup ({reader[t].new} \ {None})}

\* A creation handler is about to show o; else the cache shows it when it is
\* there.
Busy(o) == handler.pc # "idle" /\ handler.obj = o
Shown(o) ==
    IF Busy(o)
    THEN /\ o \in present
         /\ handler.pc = "merge" /\ handler.found # None => instances[o] # None
    ELSE o \in present <=> instances[o] # None

\* But for what the dbus thread has yet to hear of, the query has gathered
\* what there is, and then the cache shows it.
FilledInv ==
    /\ reader[Main].pc \in {"query", "create", "bind"} =>
            \A o \in Objects : instances[o] = None
    /\ reader[Main].pc \in {"create", "bind"} =>
            \A o \in Objects :
                ~Pending(o) => (o \in present <=> o \in Gathered(Main))
    /\ initialized \/ reader[Main].pc \in {"finish", "mark"} =>
            \A o \in Objects : ~Pending(o) => Shown(o)

StartupInv == WatchInv /\ LastTells /\ StartInv /\ FilledInv

\* What Append and Tail do to what the dbus thread has been told.
LEMMA ToldAppended ==
  ASSUME TypeOK, NEW s \in Signal, inbox' = Append(inbox, s)
  PROVE  /\ Len(inbox') = Len(inbox) + 1 /\ Len(inbox) \in Nat
         /\ \A k \in 1..Len(inbox) : inbox'[k] = inbox[k]
         /\ inbox'[Len(inbox) + 1] = s
BY DEF TypeOK

LEMMA ToldTaken ==
  ASSUME TypeOK, inbox # <<>>, inbox' = Tail(inbox)
  PROVE  /\ Len(inbox) = Len(inbox') + 1 /\ Len(inbox') \in Nat
         /\ \A k \in 1..Len(inbox') : inbox'[k] = inbox[k + 1]
         /\ Head(inbox) = inbox[1]
BY DEF TypeOK

\* A signal that tells nothing about who is there.
LEMMA OtherAppended ==
  ASSUME TypeOK, LastTells, NEW s \in Signal, s.kind = "changed",
         inbox' = Append(inbox, s), UNCHANGED present
  PROVE  /\ LastTells'
         /\ \A o \in Objects : Pending(o)' <=> Pending(o)
<1>1. /\ Len(inbox') = Len(inbox) + 1 /\ Len(inbox) \in Nat
      /\ \A k \in 1..Len(inbox) : inbox'[k] = inbox[k]
      /\ inbox'[Len(inbox) + 1] = s
  BY ToldAppended
<1>2. ASSUME NEW o \in Objects, NEW k \in 1..Len(inbox')
      PROVE  Told(k, o)' <=> k \in 1..Len(inbox) /\ Told(k, o)
  <2>1. CASE k \in 1..Len(inbox)
    BY <1>1, <2>1 DEF Told
  <2>2. CASE k \notin 1..Len(inbox)
    <3>1. k = Len(inbox) + 1
      BY <1>1, <2>2
    <3> QED BY <1>1, <2>2, <3>1 DEF Told
  <2> QED BY <2>1, <2>2
<1>3. 1..Len(inbox) \subseteq 1..Len(inbox')
  BY <1>1
<1>4. LastTells'
  <2> SUFFICES ASSUME NEW o \in Objects, NEW k \in 1..Len(inbox'), Told(k, o)',
                      \A j \in 1..Len(inbox') : j > k => ~Told(j, o)'
               PROVE  inbox'[k].kind = "added" <=> o \in present
    BY DEF LastTells
  <2>1. k \in 1..Len(inbox) /\ Told(k, o)
    BY <1>2
  <2>2. \A j \in 1..Len(inbox) : j > k => ~Told(j, o)
    BY <1>2, <1>3
  <2> QED BY <1>1, <2>1, <2>2 DEF LastTells
<1> QED BY <1>2, <1>3, <1>4 DEF Pending

\* A signal about p that says how p is now.
LEMMA NewsAppended ==
  ASSUME TypeOK, LastTells, NEW s \in Signal, NEW p \in Objects,
         s.kind \in {"added", "removed"}, s.obj = p,
         inbox' = Append(inbox, s),
         s.kind = "added" <=> p \in present',
         \A o \in Objects : o # p => (o \in present' <=> o \in present)
  PROVE  /\ LastTells'
         /\ \A o \in Objects : Pending(o)' <=> o = p \/ Pending(o)
<1>1. PICK n \in Nat : n = Len(inbox) + 1
  BY ToldAppended
<1>2. /\ Len(inbox') = n /\ Len(inbox) \in Nat /\ n = Len(inbox) + 1
      /\ \A k \in 1..Len(inbox) : inbox'[k] = inbox[k]
      /\ inbox'[n] = s
  BY <1>1, ToldAppended
<1>3. ASSUME NEW o \in Objects, NEW k \in 1..Len(inbox)
      PROVE  Told(k, o)' <=> Told(k, o)
  BY <1>2 DEF Told
<1>4. ASSUME NEW o \in Objects PROVE Told(n, o)' <=> o = p
  BY <1>2 DEF Told
<1>5. /\ 1..Len(inbox) \subseteq 1..Len(inbox') /\ n \in 1..Len(inbox')
      /\ \A k \in 1..Len(inbox') : k = n \/ (k \in 1..Len(inbox) /\ n > k)
  BY <1>2
<1>6. LastTells'
  <2> SUFFICES ASSUME NEW o \in Objects, NEW k \in 1..Len(inbox'), Told(k, o)',
                      \A j \in 1..Len(inbox') : j > k => ~Told(j, o)'
               PROVE  inbox'[k].kind = "added" <=> o \in present'
    BY DEF LastTells
  <2>1. CASE o = p
    <3>1. k = n
      BY <1>4, <1>5, <2>1
    <3> QED BY <1>2, <2>1, <3>1
  <2>2. CASE o # p
    <3>1. k \in 1..Len(inbox)
      BY <1>4, <1>5, <2>2
    <3>2. Told(k, o) /\ \A j \in 1..Len(inbox) : j > k => ~Told(j, o)
      BY <1>3, <1>5, <3>1
    <3> QED BY <1>2, <2>2, <3>1, <3>2 DEF LastTells
  <2> QED BY <2>1, <2>2
<1> QED BY <1>3, <1>4, <1>5, <1>6 DEF Pending

\* The dbus thread takes the next signal: what it was the last to tell is so.
LEMMA NewsTaken ==
  ASSUME TypeOK, LastTells, inbox # <<>>, inbox' = Tail(inbox),
         UNCHANGED present
  PROVE  /\ LastTells'
         /\ \A o \in Objects : Pending(o) => Pending(o)' \/ Told(1, o)
         /\ \A o \in Objects : Pending(o)' => Pending(o)
         /\ \A o \in Objects :
                Told(1, o) /\ ~Pending(o)' =>
                    (Head(inbox).kind = "added" <=> o \in present)
<1>1. /\ Len(inbox) = Len(inbox') + 1 /\ Len(inbox') \in Nat
      /\ \A k \in 1..Len(inbox') : inbox'[k] = inbox[k + 1]
      /\ Head(inbox) = inbox[1]
  BY ToldTaken
<1>2. ASSUME NEW o \in Objects, NEW k \in 1..Len(inbox')
      PROVE  /\ k + 1 \in 1..Len(inbox) /\ k \in Nat
             /\ Told(k, o)' <=> Told(k + 1, o)
  BY <1>1 DEF Told
<1>3. ASSUME NEW k \in 1..Len(inbox), k # 1
      PROVE  k - 1 \in 1..Len(inbox') /\ (k - 1) + 1 = k /\ k \in Nat
  BY <1>1, <1>3
<1>4. 1 \in 1..Len(inbox)
  BY <1>1
<1>5. ASSUME NEW o \in Objects, NEW k \in 1..Len(inbox), k # 1
      PROVE  Told(k, o) <=> Told(k - 1, o)'
  <2>1. k - 1 \in 1..Len(inbox') /\ (k - 1) + 1 = k
    BY <1>3, <1>5
  <2> QED BY <1>2, <2>1
<1>6. LastTells'
  <2> SUFFICES ASSUME NEW o \in Objects, NEW k \in 1..Len(inbox'), Told(k, o)',
                      \A j \in 1..Len(inbox') : j > k => ~Told(j, o)'
               PROVE  inbox'[k].kind = "added" <=> o \in present
    BY DEF LastTells
  <2>1. k + 1 \in 1..Len(inbox) /\ Told(k + 1, o) /\ k \in Nat
    BY <1>2
  <2>2. ASSUME NEW j \in 1..Len(inbox), j > k + 1 PROVE ~Told(j, o)
    <3>1. j # 1 /\ j - 1 > k
      BY <2>1, <2>2
    <3>2. j - 1 \in 1..Len(inbox')
      BY <1>3, <3>1
    <3>3. ~Told(j - 1, o)'
      BY <3>1, <3>2
    <3> QED BY <1>5, <3>1, <3>3
  <2>3. inbox[k + 1].kind = "added" <=> o \in present
    BY <2>1, <2>2 DEF LastTells
  <2> QED BY <1>1, <2>3
<1>7. ASSUME NEW o \in Objects, Pending(o), ~Told(1, o) PROVE Pending(o)'
  <2>1. PICK k \in 1..Len(inbox) : Told(k, o)
    BY <1>7 DEF Pending
  <2>2. k # 1
    BY <1>7, <2>1
  <2> QED BY <1>3, <1>5, <2>1, <2>2 DEF Pending
<1>8. ASSUME NEW o \in Objects, Told(1, o), ~Pending(o)'
      PROVE  Head(inbox).kind = "added" <=> o \in present
  <2>1. \A j \in 1..Len(inbox) : j > 1 => ~Told(j, o)
    BY <1>3, <1>5, <1>8 DEF Pending
  <2>2. inbox[1].kind = "added" <=> o \in present
    BY <1>4, <1>8, <2>1 DEF LastTells
  <2> QED BY <1>1, <2>2
<1>9. ASSUME NEW o \in Objects, Pending(o)' PROVE Pending(o)
  BY <1>2, <1>9 DEF Pending
<1> QED BY <1>6, <1>7, <1>8, <1>9

\* Objects come, go and change: of what the dbus thread has not been told,
\* nothing is claimed.
LEMMA ServicesKeepStartup ==
  ASSUME StartupInv, Services
  PROVE  LastTells' /\ StartInv' /\ FilledInv'
<1>1. /\ UNCHANGED <<instances, dataVars, listeners, toCleanupInstances, flagVars,
                     registered, reader, handler, observing>>
      /\ TypeOK /\ LastTells
  BY DEF Services, StartupInv, WatchInv
<1>2. PICK p \in Objects : Appear(p) \/ Vanish(p) \/ Change(p)
  BY DEF Services
<1> DEFINE signal(kind, v) == [kind |-> kind, obj |-> p, val |-> v]
<1>3. /\ world[p] + 1 \in Int /\ NoValue \in Int
      /\ \A kind \in {"added", "removed", "changed"}, v \in Int :
            /\ signal(kind, v) \in Signal
            /\ signal(kind, v).kind = kind /\ signal(kind, v).obj = p
            /\ Emit(kind, p, v) = Append(inbox, signal(kind, v))
  BY <1>1 DEF TypeOK, NoValue, Signal, Emit
<1> HIDE DEF signal
<1>4. /\ LastTells'
      /\ \A o \in Objects : Pending(o) => Pending(o)'
      /\ \A o \in Objects : ~Pending(o)' => (o \in present' <=> o \in present)
  <2>1. CASE Appear(p)
    <3>1. /\ inbox' = Append(inbox, signal("added", NoValue))
          /\ present' = present \cup {p}
      BY <1>3, <2>1 DEF Appear
    <3> QED BY <1>1, <1>3, <3>1, NewsAppended
  <2>2. CASE Vanish(p)
    <3>1. /\ inbox' = Append(inbox, signal("removed", NoValue))
          /\ present' = present \ {p}
      BY <1>3, <2>2 DEF Vanish
    <3> QED BY <1>1, <1>3, <3>1, NewsAppended
  <2>3. CASE Change(p) /\ inbox' = inbox
    BY <1>1, <2>3 DEF Change, LastTells, Pending, Told
  <2>4. CASE Change(p) /\ inbox' # inbox
    <3>1. /\ inbox' = Append(inbox, signal("changed", world[p] + 1))
          /\ present' = present
      BY <1>3, <2>4 DEF Change
    <3> QED BY <1>1, <1>3, <3>1, OtherAppended
  <2> QED BY <1>2, <2>1, <2>2, <2>3, <2>4
<1>5. StartInv'
  BY <1>1 DEF StartupInv, StartInv, Filling, At, flagVars
<1>6. FilledInv'
  BY <1>1, <1>4 DEF StartupInv, FilledInv, Gathered, Shown, Busy, flagVars, dataVars
<1> QED BY <1>4, <1>5, <1>6

\* Once the dbus thread runs, populate() is over, and its steps need only keep
\* what the cache shows.
LEMMA OnceObserving ==
  ASSUME StartupInv, observing,
         UNCHANGED <<reader, flagVars, registered, observing>>
  PROVE  /\ StartInv' /\ registered > 0
         /\ \A o \in Objects : ~Pending(o) => Shown(o)
         /\ (\A o \in Objects : ~Pending(o)' => Shown(o)') => FilledInv'
<1>1. initialized /\ ~Filling(Main) /\ initialized'
  BY CacheAssumption DEF StartupInv, StartInv, flagVars
<1>2. reader'[Main].pc \notin {"query", "create", "bind"}
  BY <1>1 DEF Filling, FillSteps
<1>3. StartInv'
  BY DEF StartupInv, StartInv, Filling, At, flagVars
<1>4. (\A o \in Objects : ~Pending(o)' => Shown(o)') => FilledInv'
  BY <1>2 DEF FilledInv
<1>5. registered > 0 /\ \A o \in Objects : ~Pending(o) => Shown(o)
  BY <1>1 DEF StartupInv, StartInv, FilledInv
<1> QED BY <1>3, <1>4, <1>5

\* The dbus thread starts when the startup's update() has filled the entity.
LEMMA ObserveKeepsStartup ==
  ASSUME StartupInv, Source = "cached", Observe
  PROVE  LastTells' /\ StartInv' /\ FilledInv'
<1>1. /\ UNCHANGED <<worldVars, inbox, instances, dataVars, flagVars, registered,
                     reader, handler>>
      /\ registered > 0 /\ reader[Main].pc = "idle" /\ observing'
  BY DEF Observe, UpdatedFirst, At
<1>2. initialized
  BY <1>1 DEF StartupInv, StartInv, Configured
<1>3. StartInv'
  BY <1>1, <1>2 DEF StartupInv, StartInv, Filling, At, flagVars
<1>4. LastTells' /\ FilledInv'
  BY <1>1 DEF StartupInv, LastTells, FilledInv, Pending, Told, Gathered, Shown,
              Busy, flagVars, dataVars, worldVars
<1> QED BY <1>3, <1>4

\* A signal is taken from the queue.
LEMMA DispatchKeepsStartup ==
  ASSUME StartupInv, DispatchChanged \/ DispatchRemoved \/ DispatchAdded
  PROVE  LastTells' /\ StartInv' /\ FilledInv'
<1>1. /\ UNCHANGED <<worldVars, flagVars, registered, reader, observing>>
      /\ observing /\ handler.pc = "idle" /\ inbox # <<>> /\ inbox' = Tail(inbox)
  BY DEF DispatchChanged, DispatchRemoved, DispatchAdded, Dispatching, BusFree
<1>2. TypeOK /\ LastTells
  BY DEF StartupInv, WatchInv
<1>3. /\ LastTells'
      /\ \A o \in Objects : Pending(o) => Pending(o)' \/ Told(1, o)
      /\ \A o \in Objects :
            Told(1, o) /\ ~Pending(o)' =>
                (Head(inbox).kind = "added" <=> o \in present)
  BY <1>1, <1>2, NewsTaken DEF worldVars
<1>4. /\ StartInv' /\ registered > 0
      /\ \A o \in Objects : ~Pending(o) => Shown(o)
      /\ (\A o \in Objects : ~Pending(o)' => Shown(o)') => FilledInv'
  BY <1>1, OnceObserving
<1>5. /\ Head(inbox) = inbox[1] /\ Head(inbox) \in Signal
      /\ Head(inbox).obj \in Objects
  <2>1. Head(inbox) = inbox[1] /\ inbox \in Seq(Signal)
    BY <1>1, <1>2, ToldTaken DEF TypeOK
  <2>2. Head(inbox) \in Signal
    BY <1>1, <2>1
  <2> QED BY <2>1, <2>2 DEF Signal
<1>6. ASSUME NEW o \in Objects, ~Pending(o)' PROVE Shown(o)'
  <2>1. CASE DispatchChanged
    <3>1. ~Told(1, o) /\ UNCHANGED <<instances, handler, present>>
      BY <1>5, <2>1 DEF DispatchChanged, Dispatching, Told, worldVars
    <3>2. Shown(o)
      BY <1>3, <1>4, <1>6, <3>1
    <3> QED BY <3>1, <3>2 DEF Shown, Busy
  <2>2. CASE DispatchRemoved
    <3>1. /\ instances' = [instances EXCEPT ![Head(inbox).obj] = None]
          /\ Head(inbox).kind = "removed" /\ UNCHANGED <<handler, present>>
      BY <1>4, <2>2 DEF DispatchRemoved, Dispatching, worldVars
    <3>2. CASE o = Head(inbox).obj
      <4>1. o \notin present
        BY <1>3, <1>5, <1>6, <3>1, <3>2 DEF Told
      <4>2. instances'[o] = None
        BY <1>2, <3>1, <3>2 DEF TypeOK
      <4> QED BY <1>1, <3>1, <4>1, <4>2 DEF Shown, Busy
    <3>3. CASE o # Head(inbox).obj
      <4>1. ~Told(1, o) /\ instances'[o] = instances[o]
        BY <1>2, <1>5, <3>1, <3>3 DEF Told, TypeOK
      <4>2. Shown(o)
        BY <1>3, <1>4, <1>6, <4>1
      <4> QED BY <1>1, <3>1, <4>1, <4>2 DEF Shown, Busy
    <3> QED BY <3>2, <3>3
  <2>3. CASE DispatchAdded
    <3>1. /\ UNCHANGED <<instances, present>> /\ Head(inbox).kind = "added"
          /\ handler' = [IdleHandler EXCEPT !.pc = "introspect", !.left = registered,
                                            !.obj = Head(inbox).obj]
      BY <1>2, <1>4, <2>3 DEF DispatchAdded, Dispatching, worldVars, TypeOK
    <3>2. handler'.pc = "introspect" /\ handler'.obj = Head(inbox).obj
      BY <3>1 DEF IdleHandler
    <3>3. CASE o = Head(inbox).obj
      <4>1. o \in present
        BY <1>3, <1>5, <1>6, <3>1, <3>3 DEF Told
      <4> QED BY <3>1, <3>2, <3>3, <4>1 DEF Shown, Busy
    <3>4. CASE o # Head(inbox).obj
      <4>1. ~Told(1, o)
        BY <1>5, <3>4 DEF Told
      <4>2. Shown(o)
        BY <1>3, <1>4, <1>6, <4>1
      <4> QED BY <1>1, <3>1, <3>2, <3>4, <4>2 DEF Shown, Busy
    <3> QED BY <3>3, <3>4
  <2> QED BY <2>1, <2>2, <2>3
<1> QED BY <1>3, <1>4, <1>6

\* Every handler but the last leaves the object to the next one.
LEMMA NextHandlerObject ==
  ASSUME handler \in HandlerType
  PROVE  /\ NextHandler(handler).pc \in {"idle", "introspect"}
         /\ NextHandler(handler).pc = "introspect" =>
                NextHandler(handler).obj = handler.obj
<1>1. CASE handler.left = 1
  BY <1>1 DEF NextHandler, IdleHandler
<1>2. CASE handler.left # 1
  <2> DEFINE h == [handler EXCEPT !.pc = "introspect", !.left = @ - 1,
                                  !.new = None, !.found = None]
  <2>1. NextHandler(handler) = h
    BY <1>2 DEF NextHandler
  <2>2. h.pc = "introspect" /\ h.obj = handler.obj
    BY DEF HandlerType
  <2> QED BY <2>1, <2>2
<1> QED BY <1>1, <1>2

\* A creation handler finds the object gone, and then its removal is in the
\* queue; or it leaves an instance of it in the cache.
LEMMA HandlingKeepsStartup ==
  ASSUME StartupInv,
         HandlerIntrospect \/ HandlerCreate \/ HandlerInsert \/ HandlerUpdate
  PROVE  LastTells' /\ StartInv' /\ FilledInv'
<1>1. /\ UNCHANGED <<worldVars, inbox, flagVars, registered, reader, observing>>
      /\ handler.pc # "idle" /\ TypeOK
  BY DEF HandlerIntrospect, HandlerCreate, HandlerInsert, HandlerUpdate,
         StartupInv, WatchInv
<1>2. observing
  BY <1>1 DEF StartupInv, StartInv
<1>3. /\ StartInv'
      /\ \A o \in Objects : ~Pending(o) => Shown(o)
      /\ (\A o \in Objects : ~Pending(o)' => Shown(o)') => FilledInv'
  BY <1>1, <1>2, OnceObserving
<1>4. LastTells' /\ \A o \in Objects : Pending(o)' <=> Pending(o)
  BY <1>1 DEF StartupInv, LastTells, Pending, Told, worldVars
<1>5. /\ handler \in HandlerType /\ handler.obj \in Objects
      /\ instances \in [Objects -> Instances \cup {None}]
  BY <1>1 DEF TypeOK
<1>6. /\ NextHandler(handler).pc \in {"idle", "introspect"}
      /\ NextHandler(handler).pc = "introspect" =>
            NextHandler(handler).obj = handler.obj
  BY <1>5, NextHandlerObject
<1>7. ASSUME NEW o \in Objects, ~Pending(o), Shown(o) PROVE Shown(o)'
  <2>1. CASE HandlerIntrospect
    <3>1. UNCHANGED <<instances, present>>
      BY <1>1, <2>1 DEF HandlerIntrospect, worldVars
    <3>2. CASE handler.obj \in present
      <4>1. handler' = [handler EXCEPT !.pc = "create"]
        BY <2>1, <3>2 DEF HandlerIntrospect
      <4>2. handler'.pc = "create" /\ handler'.obj = handler.obj
        BY <1>5, <4>1 DEF HandlerType
      <4> QED BY <1>1, <1>7, <3>1, <4>2 DEF Shown, Busy
    <3>3. CASE handler.obj \notin present
      <4>1. handler' = NextHandler(handler) /\ o # handler.obj
        BY <1>1, <1>7, <2>1, <3>3 DEF HandlerIntrospect, Shown, Busy
      <4> QED BY <1>1, <1>6, <1>7, <3>1, <4>1 DEF Shown, Busy
    <3> QED BY <3>2, <3>3
  <2>2. CASE HandlerCreate
    <3>1. PICK i \in Instances :
            handler' = [handler EXCEPT !.pc = "merge", !.new = i,
                                       !.found = instances[handler.obj]]
      BY <2>2 DEF HandlerCreate
    <3>2. /\ handler'.pc = "merge" /\ handler'.obj = handler.obj
          /\ handler'.found = instances[handler.obj]
          /\ UNCHANGED <<instances, present>>
      BY <1>1, <1>5, <2>2, <3>1 DEF HandlerType, HandlerCreate, worldVars
    <3> QED BY <1>1, <1>7, <3>2 DEF Shown, Busy
  <2>3. CASE HandlerInsert
    <3>1. /\ handler' = NextHandler(handler) /\ UNCHANGED present
          /\ instances' = [instances EXCEPT ![handler.obj] =
                                IF @ = None THEN handler.new ELSE @]
      BY <1>1, <2>3 DEF HandlerInsert, worldVars
    <3>2. handler.new # None
      BY <2>3 DEF HandlerInsert, StartupInv, WatchInv, WatchesOwnObject
    <3>3. CASE o = handler.obj
      <4>1. o \in present /\ instances'[o] # None
        BY <1>1, <1>5, <1>7, <3>1, <3>2, <3>3 DEF Shown, Busy
      <4> QED BY <1>6, <3>1, <4>1 DEF Shown, Busy
    <3>4. CASE o # handler.obj
      BY <1>1, <1>5, <1>6, <1>7, <3>1, <3>4 DEF Shown, Busy
    <3> QED BY <3>3, <3>4
  <2>4. CASE HandlerUpdate
    <3>1. /\ handler' = NextHandler(handler) /\ UNCHANGED <<instances, present>>
          /\ handler.pc = "merge" /\ handler.found # None
      BY <1>1, <2>4 DEF HandlerUpdate, worldVars
    <3>2. o = handler.obj => o \in present /\ instances[o] # None
      BY <1>7, <3>1 DEF Shown, Busy
    <3> QED BY <1>6, <1>7, <3>1, <3>2 DEF Shown, Busy
  <2> QED BY <2>1, <2>2, <2>3, <2>4
<1> QED BY <1>3, <1>4, <1>7

\* Pruning is not about the cache.
LEMMA CleanupKeepsStartup ==
  ASSUME StartupInv, Cleanup
  PROVE  LastTells' /\ StartInv' /\ FilledInv'
  BY DEF Cleanup, StartupInv, LastTells, StartInv, FilledInv, Filling, Pending,
         Told, Gathered, Shown, Busy, At, worldVars, flagVars, dataVars

\* The steps of a request that is answered from the cache; and the startup's
\* populate() when it begins, or finds the entity filled.
LEMMA AskingKeepsStartup ==
  ASSUME StartupInv, Source = "cached", NEW t \in Readers,
         Populate(t) \/ Copy(t) \/ Verify(t) \/ Fill(t) \/ Answer(t) \/ Done(t)
  PROVE  LastTells' /\ StartInv' /\ FilledInv'
<1>1. /\ UNCHANGED <<worldVars, inbox, instances, object, flagVars, registered,
                     handler, observing>>
      /\ ~Filling(t) /\ TypeOK /\ LastTells
  BY DEF Populate, Copy, Verify, Fill, Answer, Done, dataVars, At, Filling,
         FillSteps, StartupInv, WatchInv
<1>2. PICK r :
        /\ reader' = [reader EXCEPT ![t] = r]
        /\ r.pc \in {"claim", "idle", "copy", "verify", "fill", "answer"}
        /\ r.pc = "claim" => t = Main /\ ~initialized
        /\ ~observing => r.pc \in {"claim", "idle"}
  <2> DEFINE moved(step) == [reader[t] EXCEPT !.pc = step]
  <2>1. ASSUME NEW step \in ReaderSteps
        PROVE  /\ [reader EXCEPT ![t].pc = step] = [reader EXCEPT ![t] = moved(step)]
               /\ moved(step).pc = step
    BY <1>1 DEF TypeOK, ReaderType
  <2>2. observing \/ reader[t].pc = "idle"
    BY <1>1 DEF StartupInv, StartInv, At
  <2>3. CASE Populate(t)
    <3>1. PICK step \in {"claim", "idle", "copy"} :
            /\ Goto(t, step)
            /\ step = "claim" => MustFill
            /\ ~observing => step \in {"claim", "idle"}
      BY <2>3 DEF Populate, AfterPopulate
    <3>2. step = "claim" => t = Main /\ ~initialized
      BY <2>3, <3>1 DEF Populate, MustFill, StartupInv, StartInv
    <3>3. step \in ReaderSteps
      BY DEF ReaderSteps, FillSteps
    <3> HIDE DEF moved
    <3> QED BY <2>1, <3>1, <3>2, <3>3 DEF Goto
  <2>4. CASE Answer(t)
    <3>1. "answer" \in ReaderSteps
      BY DEF ReaderSteps
    <3>2. reader' = [reader EXCEPT ![t].pc = "answer"] /\ reader[t].pc = "verify"
      BY <2>4 DEF Answer, Goto, At
    <3> HIDE DEF moved
    <3> QED BY <2>1, <2>2, <3>1, <3>2
  <2>5. CASE Copy(t)
    <3> DEFINE S == Range(instances) \ {None}
               q == [reader[t] EXCEPT !.pc = "verify", !.holds = S, !.todo = S]
    <3>1. /\ reader' = [reader EXCEPT ![t] = q] /\ q.pc = "verify"
          /\ reader[t].pc = "copy"
      BY <1>1, <2>5 DEF Copy, At, TypeOK, ReaderType
    <3> HIDE DEF q
    <3> QED BY <2>2, <3>1
  <2>6. CASE Verify(t)
    <3>1. PICK i \in reader[t].todo :
            \/ reader' = [reader EXCEPT ![t].todo = @ \ {i}]
            \/ reader' = [reader EXCEPT ![t].pc = "fill", ![t].new = i,
                                        ![t].reply = world[object[i]]]
      BY <2>6 DEF Verify
    <3> DEFINE dropped == [reader[t] EXCEPT !.todo = @ \ {i}]
               asked == [reader[t] EXCEPT !.pc = "fill", !.new = i,
                                          !.reply = world[object[i]]]
    <3>2. /\ reader' \in {[reader EXCEPT ![t] = dropped], [reader EXCEPT ![t] = asked]}
          /\ reader[t].pc = "verify" /\ dropped.pc = "verify" /\ asked.pc = "fill"
      <4>1. reader[t].pc = "verify"
        BY <2>6 DEF Verify, At
      <4>2. reader[t] \in ReaderType /\ reader \in [Readers -> ReaderType]
        BY <1>1 DEF TypeOK
      <4>3. dropped.pc = "verify" /\ asked.pc = "fill"
        BY <4>1, <4>2 DEF ReaderType
      <4>4. /\ [reader EXCEPT ![t].todo = @ \ {i}] = [reader EXCEPT ![t] = dropped]
            /\ [reader EXCEPT ![t].pc = "fill", ![t].new = i,
                              ![t].reply = world[object[i]]]
                    = [reader EXCEPT ![t] = asked]
        BY <4>2
      <4> QED BY <3>1, <4>1, <4>3, <4>4
    <3> HIDE DEF dropped, asked
    <3> QED BY <2>2, <3>2
  <2>7. CASE Fill(t)
    <3> DEFINE q == [reader[t] EXCEPT !.pc = "verify", !.new = None,
                          !.reply = NoValue, !.todo = @ \ {reader[t].new}]
    <3>1. /\ reader' = [reader EXCEPT ![t] = q] /\ q.pc = "verify"
          /\ reader[t].pc = "fill"
      BY <1>1, <2>7 DEF Fill, At, TypeOK, ReaderType
    <3> HIDE DEF q
    <3> QED BY <2>2, <3>1
  <2>8. CASE Done(t)
    <3>1. IdleReader.pc = "idle"
      BY DEF IdleReader
    <3> QED BY <2>8, <3>1 DEF Done
  <2> QED BY <2>3, <2>4, <2>5, <2>6, <2>7, <2>8
<1>3. \A u \in Readers : reader'[u] = IF u = t THEN r ELSE reader[u]
  BY <1>1, <1>2 DEF TypeOK
<1>4. reader'[Main].pc \in Configured <=> reader[Main].pc \in Configured
  BY <1>1, <1>2, <1>3, CacheAssumption DEF Configured, Filling, FillSteps
<1>5. StartInv'
  <2>1. \A u \in Readers : (Filling(u) => u = Main /\ ~initialized)'
    BY <1>1, <1>2, <1>3 DEF StartupInv, StartInv, Filling, FillSteps, flagVars
  <2>2. ~observing => \A u \in Readers : (Filling(u) \/ At(u, "idle"))'
    BY <1>1, <1>2, <1>3 DEF StartupInv, StartInv, Filling, FillSteps, At
  <2> QED BY <1>1, <1>4, <2>1, <2>2 DEF StartupInv, StartInv, flagVars
<1>6. LastTells' /\ \A o \in Objects : /\ Pending(o)' <=> Pending(o)
                                       /\ Shown(o)' <=> Shown(o)
  BY <1>1 DEF LastTells, Pending, Told, Shown, Busy, worldVars
<1>7. FilledInv'
  <2>1. CASE Main = t
    BY <1>1, <1>2, <1>3, <1>6, <2>1 DEF StartupInv, FilledInv, flagVars
  <2>2. CASE Main # t
    BY <1>1, <1>3, <1>6, <2>2, CacheAssumption
    DEF StartupInv, FilledInv, Gathered, flagVars, worldVars
  <2> QED BY <2>1, <2>2
<1> QED BY <1>5, <1>6, <1>7

\* populate() runs on the main thread, before the dbus thread does.
LEMMA WhileFilling ==
  ASSUME StartupInv, NEW t \in Readers, Filling(t)
  PROVE  /\ t = Main /\ ~initialized /\ ~observing /\ ~hasErrors
         /\ handler.pc = "idle" /\ TypeOK /\ LastTells
         /\ \A u \in Readers : u # Main => reader[u].pc = "idle"
<1>1. t = Main /\ ~initialized /\ ~observing /\ ~hasErrors /\ handler.pc = "idle"
  BY DEF StartupInv, StartInv
<1>2. \A u \in Readers : u # Main => reader[u].pc = "idle"
  BY <1>1 DEF StartupInv, StartInv, At
<1> QED BY <1>1, <1>2 DEF StartupInv, WatchInv

\* What stays true of the startup when populate() goes a step on.
LEMMA FillingGoesOn ==
  ASSUME StartupInv, NEW t \in Readers, Filling(t), NEW r,
         reader' = [reader EXCEPT ![t] = r],
         UNCHANGED <<present, inbox, handler, observing>>, ~hasErrors',
         \/ r.pc \in FillSteps \cup {"mark"} /\ ~initialized'
         \/ r.pc = "idle",
         registered' > 0 <=> initialized' \/ r.pc \in Configured
  PROVE  /\ LastTells' /\ StartInv' /\ reader'[Main] = r
         /\ \A o \in Objects : /\ Pending(o)' <=> Pending(o)
                               /\ Shown(o)' <=> (o \in present <=> instances'[o] # None)
<1>1. /\ t = Main /\ ~initialized /\ ~observing /\ handler.pc = "idle"
      /\ TypeOK /\ LastTells
      /\ \A u \in Readers : u # Main => reader[u].pc = "idle"
  BY WhileFilling
<1>2. /\ \A u \in Readers : reader'[u] = IF u = Main THEN r ELSE reader[u]
      /\ reader'[Main] = r
  BY <1>1 DEF TypeOK
<1>3. LastTells' /\ \A o \in Objects : Pending(o)' <=> Pending(o)
  BY <1>1 DEF LastTells, Pending, Told
<1>4. StartInv'
  <2>1. \A u \in Readers : (Filling(u) => u = Main /\ ~initialized)'
    BY <1>1, <1>2 DEF Filling, FillSteps
  <2>2. \A u \in Readers : (Filling(u) \/ At(u, "idle"))'
    BY <1>1, <1>2 DEF Filling, FillSteps, At
  <2> QED BY <1>1, <1>2, <2>1, <2>2 DEF StartInv
<1>5. \A o \in Objects : Shown(o)' <=> (o \in present <=> instances'[o] # None)
  BY <1>1 DEF Shown, Busy
<1> QED BY <1>2, <1>3, <1>4, <1>5

\* cachingInProgress goes up and down around the query, the observers are
\* pushed, and the entity is marked.
LEMMA FramingKeepsStartup ==
  ASSUME StartupInv, Source = "cached", NEW t \in Readers,
         Claim(t) \/ Reset(t) \/ Finish(t) \/ Mark(t)
  PROVE  LastTells' /\ StartInv' /\ FilledInv'
<1>1. /\ Filling(t) /\ UNCHANGED <<worldVars, inbox, dataVars, handler, observing>>
      /\ ~Reset(t) => UNCHANGED instances
  BY DEF Claim, Reset, Finish, Mark, At, Filling, FillSteps
<1>2. /\ t = Main /\ ~initialized /\ ~observing /\ ~hasErrors /\ TypeOK
  BY <1>1, WhileFilling
<1>3. registered \in Nat /\ (registered > 0 <=> reader[Main].pc \in Configured)
  BY <1>2 DEF StartupInv, StartInv, TypeOK
<1> DEFINE moved(step) == [reader[t] EXCEPT !.pc = step]
<1>4. ASSUME NEW step \in ReaderSteps, Goto(t, step)
      PROVE  reader' = [reader EXCEPT ![t] = moved(step)] /\ moved(step).pc = step
  BY <1>2, <1>4 DEF TypeOK, ReaderType, Goto
<1> HIDE DEF moved
<1>5. {"reset", "query", "mark", "idle"} \subseteq ReaderSteps
  BY DEF ReaderSteps, FillSteps
<1>6. CASE Claim(t)
  <2>1. /\ Goto(t, "reset") /\ reader[t].pc = "claim" /\ ~hasErrors'
        /\ UNCHANGED <<initialized, registered>>
    BY <1>6 DEF Claim, At
  <2>2. registered' > 0 <=> initialized' \/ "reset" \in Configured
    BY <1>2, <1>3, <2>1 DEF Configured
  <2>3. /\ LastTells' /\ StartInv' /\ reader'[Main].pc = "reset"
    BY <1>1, <1>2, <1>4, <1>5, <2>1, <2>2, FillingGoesOn DEF FillSteps, worldVars
  <2> QED BY <1>2, <2>1, <2>3 DEF FilledInv
<1>7. CASE Reset(t)
  <2>1. /\ Goto(t, "query") /\ reader[t].pc = "reset"
        /\ UNCHANGED flagVars /\ registered' = registered + 1
        /\ instances' = [o \in Objects |-> None]
    BY <1>7 DEF Reset, At
  <2>2. registered' > 0 <=> initialized' \/ "query" \in Configured
    BY <1>3, <2>1 DEF Configured
  <2>3. /\ LastTells' /\ StartInv' /\ reader'[Main].pc = "query"
    BY <1>1, <1>2, <1>4, <1>5, <2>1, <2>2, FillingGoesOn
    DEF FillSteps, flagVars, worldVars
  <2> QED BY <1>2, <2>1, <2>3 DEF FilledInv, flagVars
<1>8. CASE Finish(t)
  <2>1. /\ Goto(t, "mark") /\ reader[t].pc = "finish"
        /\ UNCHANGED <<initialized, hasErrors, registered, instances>>
    BY <1>8 DEF Finish, At
  <2>2. registered' > 0 <=> initialized' \/ "mark" \in Configured
    BY <1>2, <1>3, <2>1 DEF Configured
  <2>3. /\ LastTells' /\ StartInv' /\ reader'[Main].pc = "mark"
        /\ \A o \in Objects :
            /\ Pending(o)' <=> Pending(o)
            /\ Shown(o)' <=> (o \in present <=> instances'[o] # None)
    BY <1>1, <1>2, <1>4, <1>5, <2>1, <2>2, FillingGoesOn DEF worldVars
  <2>4. \A o \in Objects : ~Pending(o) => Shown(o)
    BY <1>2, <2>1 DEF StartupInv, FilledInv
  <2>5. \A o \in Objects : Shown(o) <=> (o \in present <=> instances[o] # None)
    BY <1>1, <1>2, WhileFilling DEF Shown, Busy
  <2> QED BY <2>1, <2>3, <2>4, <2>5 DEF FilledInv
<1>9. CASE Mark(t)
  <2>1. /\ Goto(t, "idle") /\ reader[t].pc = "mark" /\ initialized'
        /\ UNCHANGED <<hasErrors, registered, instances>>
    BY <1>2, <1>9 DEF Mark, At, AfterPopulate
  <2>2. registered' > 0 <=> initialized' \/ "idle" \in Configured
    BY <1>2, <1>3, <2>1 DEF Configured
  <2>3. /\ LastTells' /\ StartInv' /\ reader'[Main].pc = "idle"
        /\ \A o \in Objects :
            /\ Pending(o)' <=> Pending(o)
            /\ Shown(o)' <=> (o \in present <=> instances'[o] # None)
    BY <1>1, <1>2, <1>4, <1>5, <2>1, <2>2, FillingGoesOn DEF worldVars
  <2>4. \A o \in Objects : ~Pending(o) => Shown(o)
    BY <1>2, <2>1 DEF StartupInv, FilledInv
  <2>5. \A o \in Objects : Shown(o) <=> (o \in present <=> instances[o] # None)
    BY <1>1, <1>2, WhileFilling DEF Shown, Busy
  <2> QED BY <2>1, <2>3, <2>4, <2>5 DEF FilledInv
<1> QED BY <1>6, <1>7, <1>8, <1>9

\* The query gathers what is there, and goes on to create an instance of each.
LEMMA GatheringKeepsStartup ==
  ASSUME StartupInv, Source = "cached", ~MayFail, NEW t \in Readers,
         Query(t) \/ Create(t) \/ Bind(t)
  PROVE  LastTells' /\ StartInv' /\ FilledInv'
<1>1. /\ Filling(t) /\ reader[t].pc \in {"query", "create", "bind"}
      /\ UNCHANGED <<present, inbox, instances, flagVars, registered, handler,
                     observing>>
  BY DEF Query, Create, Bind, At, Filling, FillSteps, worldVars, flagVars
<1>2. /\ t = Main /\ ~initialized /\ ~observing /\ ~hasErrors /\ TypeOK
      /\ registered > 0
  BY <1>1, WhileFilling DEF StartupInv, StartInv, Configured
<1>3. reader[t] \in ReaderType /\ reader \in [Readers -> ReaderType]
  BY <1>2 DEF TypeOK
<1>4. NothingOverwritten
  BY DEF StartupInv, WatchInv
<1>5. PICK r :
        /\ reader' = [reader EXCEPT ![t] = r] /\ r.pc \in {"create", "bind"}
        /\ \A o \in Objects :
            ~Pending(o) =>
                (o \in present <=>
                    \/ o \in r.todo
                    \/ \E i \in r.holds : object'[i] = o
                    \/ r.new # None /\ object'[r.new] = o)
  <2>1. CASE Query(t)
    <3> DEFINE q == [reader[t] EXCEPT !.pc = "create", !.todo = present]
    <3>1. /\ reader' = [reader EXCEPT ![t].pc = "create", ![t].todo = present]
          /\ reader[t].pc = "query"
      BY <2>1 DEF Query, At
    <3>2. reader' = [reader EXCEPT ![t] = q]
      BY <1>3, <3>1
    <3>3. /\ q.pc = "create" /\ q.todo = present
          /\ q.holds = {} /\ q.new = None
      BY <1>3, <1>4, <3>1 DEF NothingOverwritten, ReaderType
    <3> HIDE DEF q
    <3> QED BY <3>2, <3>3
  <2>2. ASSUME NEW o \in Objects, ~Pending(o), ~Query(t)
        PROVE  o \in present <=>
                    \/ o \in reader[t].todo
                    \/ \E i \in reader[t].holds : object[i] = o
                    \/ reader[t].new # None /\ object[reader[t].new] = o
    <3>1. reader[t].pc \in {"create", "bind"}
      BY <2>2 DEF Create, Bind, At
    <3>2. o \in present <=> o \in Gathered(Main)
      BY <1>2, <2>2, <3>1 DEF StartupInv, FilledInv
    <3> QED BY <1>2, <3>2 DEF Gathered
  <2>3. CASE Create(t)
    <3>1. PICK o \in reader[t].todo, i \in Instances :
            /\ NewInstance(i, o)
            /\ reader' = [reader EXCEPT ![t].pc = "bind", ![t].new = i,
                                        ![t].todo = @ \ {o}]
      BY <2>3 DEF Create
    <3> DEFINE q == [reader[t] EXCEPT !.pc = "bind", !.new = i, !.todo = @ \ {o}]
    <3>2. reader[t].pc = "create" /\ ~Query(t)
      BY <2>3 DEF Create, Query, At
    <3>3. reader[t].new = None /\ o \in Objects /\ i # None
      BY <1>2, <1>4, <3>2, CacheAssumption DEF NothingOverwritten, TypeOK
    <3>4. /\ q.pc = "bind" /\ q.todo = reader[t].todo \ {o}
          /\ q.holds = reader[t].holds /\ q.new = i
      BY <1>3 DEF ReaderType
    <3>5. reader' = [reader EXCEPT ![t] = q]
      BY <1>3, <3>1
    <3> HIDE DEF q
    <3>6. ASSUME NEW j \in reader[t].holds PROVE object'[j] = object[j]
      <4>1. j \in Instances /\ j # None
        BY <1>3, CacheAssumption DEF ReaderType
      <4>2. j \in Referenced
        BY <4>1, RefsAre DEF Referenced
      <4> QED BY <1>2, <3>1, <3>3, <4>1, <4>2, NewInstanceIsFresh
    <3>7. object'[i] = o
      BY <1>2, <3>1, <3>3, NewInstanceIsFresh
    <3>8. ASSUME NEW p \in Objects, ~Pending(p)
          PROVE  p \in present <=>
                    \/ p \in q.todo
                    \/ \E j \in q.holds : object'[j] = p
                    \/ q.new # None /\ object'[q.new] = p
      BY <2>2, <3>2, <3>3, <3>4, <3>6, <3>7, <3>8
    <3> QED BY <3>4, <3>5, <3>8
  <2>4. CASE Bind(t)
    <3> DEFINE i == reader[t].new
               q == [reader[t] EXCEPT !.pc = "create", !.new = None,
                                      !.holds = @ \cup {i}]
    <3>1. /\ reader' = [reader EXCEPT ![t].pc = "create", ![t].new = None,
                                      ![t].holds = @ \cup {i}]
          /\ reader[t].pc = "bind" /\ UNCHANGED object /\ ~Query(t)
      BY <2>4 DEF Bind, Query, At, dataVars
    <3>2. i # None
      BY <3>1 DEF StartupInv, WatchInv, WatchesOwnObject
    <3>3. reader' = [reader EXCEPT ![t] = q]
      BY <1>3, <3>1
    <3>4. /\ q.pc = "create" /\ q.todo = reader[t].todo
          /\ q.holds = reader[t].holds \cup {i} /\ q.new = None
      BY <1>3 DEF ReaderType
    <3> HIDE DEF q
    <3>5. ASSUME NEW p \in Objects, ~Pending(p)
          PROVE  p \in present <=>
                    \/ p \in q.todo
                    \/ \E j \in q.holds : object'[j] = p
                    \/ q.new # None /\ object'[q.new] = p
      BY <2>2, <3>1, <3>2, <3>4, <3>5
    <3> QED BY <3>3, <3>4, <3>5
  <2> QED BY <1>1, <2>1, <2>3, <2>4 DEF Query, Create, Bind
<1>6. /\ LastTells' /\ StartInv' /\ reader'[Main] = r
      /\ \A o \in Objects : Pending(o)' <=> Pending(o)
  <2>1. /\ ~initialized' /\ ~hasErrors'
        /\ registered' > 0 <=> initialized' \/ r.pc \in Configured
    BY <1>1, <1>2, <1>5 DEF Configured, flagVars
  <2> QED BY <1>1, <1>5, <2>1, FillingGoesOn DEF FillSteps
<1>7. \A o \in Objects :
        o \in Gathered(Main)' <=>
            \/ o \in r.todo
            \/ \E i \in r.holds : object'[i] = o
            \/ r.new # None /\ object'[r.new] = o
  BY <1>6 DEF Gathered
<1>8. \A o \in Objects : instances'[o] = None
  BY <1>1, <1>2 DEF StartupInv, FilledInv
<1>9. ~initialized'
  BY <1>1, <1>2 DEF flagVars
<1>10. \A o \in Objects : ~Pending(o)' => (o \in present' <=> o \in Gathered(Main)')
  BY <1>1, <1>5, <1>6, <1>7
<1> QED BY <1>5, <1>6, <1>8, <1>9, <1>10 DEF FilledInv

\* An exception would have ended the process during the startup.
LEMMA ThrowIsLater ==
  ASSUME StartupInv, NEW t \in Readers
  PROVE  ~Throw(t)
<1>1. Throw(t) => Filling(t) /\ observing
  BY DEF Throw, At, Filling, FillSteps
<1> QED BY <1>1, WhileFilling

\* setInstances(): what was gathered is what the cache shows.
LEMMA StoreKeepsStartup ==
  ASSUME StartupInv, Source = "cached", NEW t \in Readers, Store(t)
  PROVE  LastTells' /\ StartInv' /\ FilledInv'
<1> DEFINE mine(o) == {i \in reader[t].holds : object[i] = o}
           r == [reader[t] EXCEPT !.pc = "finish", !.holds = {}]
<1>1. /\ Filling(t) /\ reader[t].pc = "create" /\ reader[t].todo = {}
      /\ UNCHANGED <<worldVars, inbox, flagVars, registered, handler, observing>>
      /\ instances' = [o \in Objects |-> IF mine(o) = {} THEN instances[o]
                                         ELSE CHOOSE i \in mine(o) : TRUE]
      /\ reader' = [reader EXCEPT ![t].pc = "finish", ![t].holds = {}]
  BY DEF Store, At, Filling, FillSteps
<1>2. /\ t = Main /\ ~initialized /\ ~observing /\ ~hasErrors /\ TypeOK
      /\ registered > 0
  BY <1>1, WhileFilling DEF StartupInv, StartInv, Configured
<1>3. reader' = [reader EXCEPT ![t] = r] /\ r.pc = "finish"
  BY <1>1, <1>2 DEF TypeOK, ReaderType
<1> HIDE DEF r
<1>4. /\ ~initialized' /\ ~hasErrors'
      /\ registered' > 0 <=> initialized' \/ r.pc \in Configured
  BY <1>1, <1>2, <1>3 DEF Configured, flagVars
<1>5. /\ LastTells' /\ StartInv' /\ reader'[Main] = r
      /\ \A o \in Objects :
            /\ Pending(o)' <=> Pending(o)
            /\ Shown(o)' <=> (o \in present <=> instances'[o] # None)
  BY <1>1, <1>3, <1>4, FillingGoesOn DEF FillSteps, worldVars
<1>6. reader[t].new = None /\ reader[t].holds \subseteq Instances
  BY <1>1, <1>2 DEF StartupInv, WatchInv, NothingOverwritten, TypeOK, ReaderType
<1>7. ASSUME NEW o \in Objects, ~Pending(o)
      PROVE  o \in present <=> instances'[o] # None
  <2>1. o \in present <=> o \in Gathered(Main)
    BY <1>1, <1>2, <1>7 DEF StartupInv, FilledInv
  <2>2. o \in Gathered(Main) <=> mine(o) # {}
    BY <1>1, <1>2, <1>6 DEF Gathered
  <2>3. CASE mine(o) = {}
    <3>1. instances'[o] = instances[o]
      BY <1>1, <2>3
    <3>2. instances[o] = None
      BY <1>1, <1>2 DEF StartupInv, FilledInv
    <3> QED BY <2>1, <2>2, <2>3, <3>1, <3>2
  <2>4. CASE mine(o) # {}
    <3>1. (CHOOSE i \in mine(o) : TRUE) \in mine(o)
      BY <2>4
    <3>2. instances'[o] = CHOOSE i \in mine(o) : TRUE
      BY <1>1, <2>4
    <3>3. instances'[o] \in Instances
      BY <1>6, <3>1, <3>2
    <3> QED BY <2>1, <2>2, <2>4, <3>3, CacheAssumption
  <2> QED BY <2>3, <2>4
<1>8. reader'[Main].pc = "finish"
  BY <1>3, <1>5
<1> QED BY <1>5, <1>7, <1>8 DEF FilledInv

\* The first state: the entity is not filled, and no signal was sent.
LEMMA StartupInvInit == Init => LastTells /\ StartInv /\ FilledInv
BY CacheAssumption
DEF Init, LastTells, StartInv, FilledInv, Filling, FillSteps, Configured, At,
    IdleReader, IdleHandler

\* Every step keeps it.
LEMMA StartupInvNext ==
  ASSUME StartupInv, Source = "cached", ~MayFail, [Next]_vars
  PROVE  StartupInv'
<1>1. WatchInv'
  BY WatchInvNext DEF StartupInv
<1>2. CASE Services
  BY <1>1, <1>2, ServicesKeepStartup DEF StartupInv
<1>3. CASE BusStep
  BY <1>1, <1>3, ObserveKeepsStartup, DispatchKeepsStartup, HandlingKeepsStartup,
     CleanupKeepsStartup DEF BusStep, StartupInv
<1>4. ASSUME NEW t \in Readers, ReaderStep(t) PROVE StartupInv'
  BY <1>1, <1>4, AskingKeepsStartup, FramingKeepsStartup, GatheringKeepsStartup,
     ThrowIsLater, StoreKeepsStartup DEF ReaderStep, StartupInv
<1>5. CASE UNCHANGED vars
  <2>1. UNCHANGED <<worldVars, inbox, instances, dataVars, flagVars, registered,
                    reader, handler, observing>>
    BY <1>5 DEF vars
  <2> QED BY <1>1, <2>1 DEF StartupInv, LastTells, StartInv, FilledInv, Filling,
              Pending, Told, Gathered, Shown, Busy, At, worldVars, flagVars, dataVars
<1> QED BY <1>2, <1>3, <1>4, <1>5 DEF Next

\* Application::configure populates before it observes: when its query did not
\* fail and the queued signals are handled, an initialized entity caches exactly
\* the objects there are, whatever came and went between the query, the storing
\* of its answer, the start of the dbus thread and the handling of each signal,
\* for any number of objects and of threads that ask for them.
THEOREM SettledCacheIsPresent ==
  ASSUME Source = "cached", ~MayFail
  PROVE  Spec => []SettledIsPresent
<1>1. Init => StartupInv
  BY StartupInvInit, WatchInvInit DEF StartupInv
<1>2. StartupInv /\ [Next]_vars => StartupInv'
  BY StartupInvNext
<1>3. StartupInv => SettledIsPresent
  <2> SUFFICES ASSUME StartupInv, Settled, initialized PROVE Cached = present
    BY DEF SettledIsPresent
  <2>1. \A o \in Objects : ~Pending(o) /\ ~Busy(o)
    BY DEF Settled, BusFree, Pending, Busy
  <2>2. \A o \in Objects : o \in present <=> instances[o] # None
    BY <2>1 DEF StartupInv, FilledInv, Shown
  <2> QED BY <2>2 DEF Cached, StartupInv, WatchInv, TypeOK
<1> QED BY <1>1, <1>2, <1>3, PTL DEF Spec
=============================================================================
